---- MODULE Spec2Model ----
(***************************************************************************)
(* Model of the marketing_storyline repository: the FeatureExtractor and   *)
(* StoryGenerator pipelines of app/ with their TTL caches, the storyline    *)
(* post-processing, the model-retry loop of RobustMarketingGenerator and    *)
(* the session state of the Streamlit UI in app.py.                         *)
(*                                                                         *)
(* Strings are sequences of characters.  A character is written as a TLA+  *)
(* string: " " is whitespace, every other one is non-blank, and a longer    *)
(* TLA+ string such as "Portable" stands for a run of non-blank characters  *)
(* that the code never looks into.                                          *)
(* Confidences are counted in hundredths (95 stands for 0.95).              *)
(***************************************************************************)
EXTENDS Integers, Sequences, FiniteSets, TLC

-----------------------------------------------------------------------------
(* Python values *)

None == [some |-> FALSE]
Some(v) == [some |-> TRUE, v |-> v]

IsSpace(c) == c \in {" ", "\n"}

\* s without its leading whitespace
LStrip(s) ==
  IF \A i \in 1..Len(s) : IsSpace(s[i]) THEN <<>>
  ELSE LET first == CHOOSE i \in 1..Len(s) :
                      ~IsSpace(s[i]) /\ \A j \in 1..(i - 1) : IsSpace(s[j])
       IN SubSeq(s, first, Len(s))

\* s without its trailing whitespace
RStrip(s) ==
  IF \A i \in 1..Len(s) : IsSpace(s[i]) THEN <<>>
  ELSE LET last == CHOOSE i \in 1..Len(s) :
                     ~IsSpace(s[i]) /\ \A j \in (i + 1)..Len(s) : IsSpace(s[j])
       IN SubSeq(s, 1, last)

\* str.strip()
Strip(s) == RStrip(LStrip(s))

\* s[:n]
Prefix(s, n) == SubSeq(s, 1, IF Len(s) < n THEN Len(s) ELSE n)

\* s[n:]
Suffix(s, n) == SubSeq(s, n + 1, Len(s))

\* s.startswith(p)
StartsWith(s, p) == Len(s) >= Len(p) /\ SubSeq(s, 1, Len(p)) = p

\* str.split(): the list of maximal runs of non-blank characters, each
\* from the position where it starts to the position where it ends
Split(s) ==
  LET n == Len(s)
      Starts(i) == ~IsSpace(s[i]) /\ (i = 1 \/ IsSpace(s[i - 1]))
      Ends(i) == ~IsSpace(s[i]) /\ (i = n \/ IsSpace(s[i + 1]))
      starts == SelectSeq([i \in 1..n |-> i], Starts)
      ends == SelectSeq([i \in 1..n |-> i], Ends)
  IN [k \in 1..Len(starts) |-> SubSeq(s, starts[k], ends[k])]

\* " ".join(words)
RECURSIVE JoinSpace(_)
JoinSpace(ws) ==
  IF ws = <<>> THEN <<>>
  ELSE IF Len(ws) = 1 THEN ws[1]
  ELSE LET half == Len(ws) \div 2
       IN JoinSpace(SubSeq(ws, 1, half)) \o <<" ">>
            \o JoinSpace(SubSeq(ws, half + 1, Len(ws)))

LowerChar(c) ==
  CASE c = "Portable" -> "portable"
    [] c = "Design"   -> "design"
    [] c = "Display"  -> "display"
    [] c = "4K"       -> "4k"
    [] c = "Resolution" -> "resolution"
    [] c = "Wireless" -> "wireless"
    [] c = "Extract"  -> "extract"
    [] c = "Features" -> "features"
    [] c = "Key"      -> "key"
    [] c = "Highlight" -> "highlight"
    [] OTHER -> c

\* str.lower()
Lower(s) == [i \in 1..Len(s) |-> LowerChar(s[i])]

\* a string of n copies of the character c
Rep(c, n) == [i \in 1..n |-> c]

SeqToSet(s) == {s[i] : i \in 1..Len(s)}

-----------------------------------------------------------------------------
(* app/config.py and cachetools.TTLCache as the services use it.  Time is   *)
(* counted in ticks; an entry stored at time t is live while now < t + ttl. *)
(* A cache is [enabled, items]: enabled = FALSE stands for self.cache =     *)
(* None, items lists the stored entries, oldest first.  CACHE_TTL and       *)
(* CACHE_MAX_SIZE are settings read from the environment; the model runs    *)
(* with small values of them.                                               *)

CACHE_TTL == 2
CACHE_MAX_SIZE == 2

NewCache(enabled) == [enabled |-> enabled, items |-> <<>>]

LiveItems(c, t) == SelectSeq(c.items, LAMBDA e : t < e.expires)

\* len(cache)
CacheLen(c, t) == Len(LiveItems(c, t))

\* bool(self.cache): None is falsy, and so is a mapping of length 0
CacheTruthyAlways(c, t) == c.enabled

CacheTruthy(c, t) == c.enabled /\ CacheLen(c, t) > 0

\* key in cache
CacheContains(c, k, t) == \E i \in 1..Len(c.items) :
                            c.items[i].key = k /\ t < c.items[i].expires

\* cache[key], for a key the cache contains
CacheGet(c, k, t) ==
  LET i == CHOOSE j \in 1..Len(c.items) :
             c.items[j].key = k /\ t < c.items[j].expires
  IN c.items[i].value

\* cache[key] = value: expired entries are purged, the oldest entries are
\* evicted while the cache is full, the entry is (re)inserted as the newest
CacheSet(c, k, v, t) ==
  LET live == SelectSeq(LiveItems(c, t), LAMBDA e : e.key # k)
      kept == IF Len(live) + 1 > CACHE_MAX_SIZE
              THEN SubSeq(live, Len(live) - CACHE_MAX_SIZE + 2, Len(live))
              ELSE live
  IN [c EXCEPT !.items =
        Append(kept, [key |-> k, value |-> v, expires |-> t + CACHE_TTL])]

-----------------------------------------------------------------------------
(* Errors *)

ValueError(msg) == [type |-> "ValueError", msg |-> msg, cause |-> "-"]
LLMError(msg) == [type |-> "LLMError", msg |-> msg, cause |-> "-"]
\* raise LLMError(f"<prefix>: {e}") in a handler of `except Exception as e`
Wrapped(prefix, e) == [type |-> "LLMError", msg |-> prefix, cause |-> e.msg]
OtherError(type, msg) == [type |-> type, msg |-> msg, cause |-> "-"]

Ok(v) == [ok |-> TRUE, v |-> v]
Raise(e) == [ok |-> FALSE, err |-> e]

-----------------------------------------------------------------------------
(* JSON values, as json.loads returns them *)

JNull == [t |-> "null"]
JNum(n) == [t |-> "num", n |-> n]
JStr(s) == [t |-> "str", s |-> s]
JList(items) == [t |-> "list", items |-> items]
\* fields: a function from the keys present to their values
JObj(fields) == [t |-> "obj", fields |-> fields]

\* bool(v)
Truthy(v) ==
  CASE v.t = "null" -> FALSE
    [] v.t = "num"  -> v.n # 0
    [] v.t = "str"  -> v.s # <<>>
    [] v.t = "list" -> v.items # <<>>
    [] v.t = "obj"  -> DOMAIN v.fields # {}

HasLen(v) == v.t \in {"str", "list", "obj"}

\* len(v), for a value that has a length
PyLen(v) ==
  CASE v.t = "str"  -> Len(v.s)
    [] v.t = "list" -> Len(v.items)
    [] v.t = "obj"  -> Cardinality(DOMAIN v.fields)

-----------------------------------------------------------------------------
(* app/schemas.py *)

FeatureTypes == {"benefit", "spec", "use-case", "audience"}

\* MarketingFeature(**feature_data) accepts the item: every required field is
\* there and within its declared range
ValidFeature(d) ==
  /\ {"id", "name", "type", "importance_rank", "confidence", "example_phrase"}
       \subseteq DOMAIN d
  /\ d.type \in FeatureTypes
  /\ d.importance_rank >= 1
  /\ d.confidence >= 0 /\ d.confidence <= 100

MarketingFeature(d) ==
  [id |-> d.id, name |-> d.name, type |-> d.type,
   importance_rank |-> d.importance_rank, confidence |-> d.confidence,
   example_phrase |-> d.example_phrase]

StorylineFields ==
  <<"headline", "subhead", "hero_paragraph", "bulleted_features", "persona",
    "use_cases", "ctas", "email_subject", "email_body", "social_posts">>

StringFields == {"headline", "subhead", "hero_paragraph", "persona",
                 "email_subject", "email_body"}
ListFields == {"bulleted_features", "use_cases", "ctas", "social_posts"}

\* a str field of a pydantic (v1) model: a number is coerced to its text
StrCoercible(v) == v.t \in {"str", "num"}
CoerceStr(v) == IF v.t = "num" THEN JStr(<<ToString(v.n)>>) ELSE v

\* StorylineResponse(**storyline_data) accepts the record: every field is
\* there, the text fields are text and the list fields lists of text
ValidStoryline(d) ==
  /\ SeqToSet(StorylineFields) \subseteq DOMAIN d
  /\ \A k \in StringFields : StrCoercible(d[k])
  /\ \A k \in ListFields :
       /\ d[k].t = "list"
       /\ \A i \in 1..Len(d[k].items) : StrCoercible(d[k].items[i])

StorylineResponse(d) ==
  [k \in SeqToSet(StorylineFields) |->
     IF k \in StringFields THEN CoerceStr(d[k])
     ELSE JList([i \in 1..Len(d[k].items) |-> CoerceStr(d[k].items[i])])]

-----------------------------------------------------------------------------
(* app/prompt_templates.py.  A rendered prompt is the template with the     *)
(* values substituted into it: the record of the template's name and those  *)
(* values.                                                                  *)

LENGTH_GUIDANCE(length) ==
  CASE length = "short" -> "Keep all content concise and punchy."
    [] length = "long"  -> "Create detailed, comprehensive content."
    [] OTHER            -> "Use moderate length content."

TONE_GUIDANCE(tone) ==
  CASE tone = "authoritative" -> "Use professional, expert language."
    [] tone = "playful"       -> "Use fun, creative language with personality."
    [] tone = "luxury"        -> "Use sophisticated, premium language."
    [] tone = "casual"        -> "Use relaxed, informal language."
    [] OTHER                  -> "Use warm, approachable language."

get_feature_extraction_prompt(product_prompt, max_features) ==
  [template |-> "FEATURE_EXTRACTION",
   product_prompt |-> Strip(product_prompt),
   max_features |-> max_features]

\* audience or "general consumers"
AudienceOr(audience, default) ==
  IF audience.some /\ audience.v # <<>> THEN audience.v ELSE <<default>>

get_storyline_generation_prompt(product_prompt, features, tone, length, audience) ==
  [template |-> "STORYLINE_GENERATION",
   product_prompt |-> Strip(product_prompt),
   features_list |-> [i \in 1..Len(features) |->
                        <<features[i].name, features[i].example_phrase>>],
   tone |-> tone,
   length |-> length,
   audience |-> AudienceOr(audience, "general consumers"),
   length_guidance |-> LENGTH_GUIDANCE(length),
   tone_guidance |-> TONE_GUIDANCE(tone)]

-----------------------------------------------------------------------------
(* app/feature_extractor.py: the steps of extract_features *)

MIN_MAX_FEATURES == 1
MAX_MAX_FEATURES == 50

ValidateExtractLoose(product_prompt, max_features) ==
  IF Strip(product_prompt) = <<>>
  THEN Raise(ValueError("Product prompt cannot be empty"))
  ELSE IF max_features < MIN_MAX_FEATURES - 1 \/ max_features > MAX_MAX_FEATURES + 1
  THEN Raise(ValueError("max_features must be between 1 and 50"))
  ELSE Ok(TRUE)

\* lines 73-77
ValidateExtract(product_prompt, max_features) ==
  IF Strip(product_prompt) = <<>>
  THEN Raise(ValueError("Product prompt cannot be empty"))
  ELSE IF max_features < MIN_MAX_FEATURES \/ max_features > MAX_MAX_FEATURES
  THEN Raise(ValueError("max_features must be between 1 and 50"))
  ELSE Ok(TRUE)

\* md5 of f"{product_prompt}:{max_features}"; the digest is taken to be
\* injective and is modelled by the text it is computed from
ExtractCacheKey(product_prompt, max_features) ==
  product_prompt \o <<":">> \o <<ToString(max_features)>>

\* the three setdefault calls on the idx-th item (idx counted from 1)
WithDefaults(d, idx) ==
  LET a == IF "id" \in DOMAIN d THEN d ELSE d @@ ("id" :> ("f" \o ToString(idx)))
      b == IF "importance_rank" \in DOMAIN a THEN a
           ELSE a @@ ("importance_rank" :> idx)
  IN IF "confidence" \in DOMAIN b THEN b ELSE b @@ ("confidence" :> 80)

RECURSIVE ConvertItems(_, _)
\* the loop of lines 109-121 over items[idx..]: an item that is no dict or
\* that MarketingFeature rejects is skipped
ConvertItems(items, idx) ==
  IF idx > Len(items) THEN <<>>
  ELSE LET it == items[idx]
           d == WithDefaults(it.fields, idx)
       IN (IF it.t = "obj" /\ ValidFeature(d) THEN <<MarketingFeature(d)>> ELSE <<>>)
          \o ConvertItems(items, idx + 1)

\* lines 108-121 on the parsed value features_data
ConvertFeatures(features_data, max_features) ==
  CASE features_data.t = "list" ->
         Ok(ConvertItems(Prefix(features_data.items, max_features), 1))
    [] features_data.t = "str" -> Ok(<<>>)
    [] OTHER -> Raise(OtherError("TypeError", "features_data is not subscriptable"))

SIMILARITY_THRESHOLD_PCT == 80

\* names that share a word are similar
names_similar_shared_word(name1, name2) ==
  SeqToSet(Split(name1)) \cap SeqToSet(Split(name2)) # {}

\* _names_similar with the default threshold (0.8)
names_similar(name1, name2) ==
  LET words1 == SeqToSet(Split(name1))
      words2 == SeqToSet(Split(name2))
      overlap == Cardinality(words1 \cap words2)
      union == Cardinality(words1 \cup words2)
  IN IF words1 = {} \/ words2 = {} THEN FALSE
     ELSE overlap * 100 >= SIMILARITY_THRESHOLD_PCT * union

RECURSIVE DedupFrom(_, _, _)
DedupFrom(features, i, seen_names) ==
  IF i > Len(features) THEN <<>>
  ELSE LET normalized_name == Strip(Lower(features[i].name))
       IN IF \E seen \in seen_names : names_similar(normalized_name, seen)
          THEN DedupFrom(features, i + 1, seen_names)
          ELSE <<features[i]>>
               \o DedupFrom(features, i + 1, seen_names \cup {normalized_name})

\* _deduplicate_features
deduplicate_features(features) == DedupFrom(features, 1, {})

\* a sort by importance_rank alone
KeyLeqRankOnly(a, b) == a.importance_rank <= b.importance_rank

\* a sort by the key, greatest first
KeyLeqDescending(a, b) ==
  \/ a.importance_rank > b.importance_rank
  \/ a.importance_rank = b.importance_rank /\ a.confidence <= b.confidence

\* the sort key (importance_rank, -confidence)
KeyLeq(a, b) ==
  \/ a.importance_rank < b.importance_rank
  \/ a.importance_rank = b.importance_rank /\ a.confidence >= b.confidence

RECURSIVE InsertSorted(_, _)
\* x goes behind every element whose key is not greater: the sort is stable
InsertSorted(sorted, x) ==
  IF sorted = <<>> THEN <<x>>
  ELSE IF KeyLeq(Head(sorted), x) THEN <<Head(sorted)>> \o InsertSorted(Tail(sorted), x)
  ELSE <<x>> \o sorted

RECURSIVE SortFeatures(_, _)
SortFeatures(features, n) ==
  IF n = 0 THEN <<>> ELSE InsertSorted(SortFeatures(features, n - 1), features[n])

\* _rank_features
\* a ranking that sorts but keeps the importance ranks the model supplied
rank_features_sort_only(features) == SortFeatures(features, Len(features))

rank_features(features) ==
  LET sorted == SortFeatures(features, Len(features))
  IN [i \in 1..Len(sorted) |-> [sorted[i] EXCEPT !.importance_rank = i]]

-----------------------------------------------------------------------------
(* app/story_generator.py: the steps of generate_storyline *)

\* lines 87-91
ValidateStory(product_prompt, features) ==
  IF Strip(product_prompt) = <<>>
  THEN Raise(ValueError("Product prompt cannot be empty"))
  ELSE IF features = <<>>
  THEN Raise(ValueError("At least one feature must be provided"))
  ELSE Ok(TRUE)

RECURSIVE FeaturesStr(_)
\* "|".join([f"{f.name}:{f.type}" for f in features])
FeaturesStr(features) ==
  IF features = <<>> THEN <<>>
  ELSE LET one == features[1].name \o <<":", features[1].type>>
       IN IF Len(features) = 1 THEN one
          ELSE one \o <<"|">> \o FeaturesStr(Tail(features))

\* md5 of the text of line 58, modelled by that text
StoryCacheKey(product_prompt, features, tone, length, audience) ==
  product_prompt \o <<":">> \o FeaturesStr(features)
    \o <<":", tone, ":", length, ":">> \o AudienceOr(audience, "default")

HEADLINE_MAX_CHARS == 60
HERO_MAX_WORDS == 100
MIN_BULLETED_FEATURES == 3
MIN_USE_CASES == 2
MIN_CTAS == 2
MIN_SOCIAL_POSTS == 2

Ellipsis == <<".", ".", ".">>

Text(s) == JStr(<<s>>)

\* the defaults of lines 176-187; each text is written as one run of
\* characters, which is shorter than every length limit, as the text is
Defaults ==
  [headline |-> Text("Discover Your Perfect Solution"),
   subhead |-> Text("Transform your experience with our innovative product"),
   hero_paragraph |->
     JStr(JoinSpace(<<<<"Our">>, <<"product">>, <<"solves">>, <<"your">>,
                      <<"challenges">>, <<"with">>, <<"innovative">>,
                      <<"features">>, <<"designed">>, <<"for">>, <<"your">>,
                      <<"success.">>>>)),
   bulleted_features |->
     JList(<<Text("Key benefit 1"), Text("Key benefit 2"), Text("Key benefit 3")>>),
   persona |-> Text("Target customers who value quality and innovation"),
   use_cases |-> JList(<<Text("Primary use case"), Text("Secondary use case")>>),
   ctas |-> JList(<<Text("Get Started Today"), Text("Learn More")>>),
   email_subject |-> Text("Transform your experience today"),
   email_body |-> Text("Discover how our innovative solution can transform your experience."),
   social_posts |->
     JList(<<Text("Great solution for your needs!"),
             Text("Transform your workflow with innovation.")>>)]

\* lines 189-193: a key that is absent or whose value is falsy gets its default
ApplyDefaults(fields) ==
  [k \in DOMAIN fields \cup DOMAIN Defaults |->
     IF k \in DOMAIN Defaults /\ (k \notin DOMAIN fields \/ ~Truthy(fields[k]))
     THEN Defaults[k] ELSE fields[k]]

\* lines 237-239
TruncateHeadline(d) ==
  IF ~HasLen(d.headline) THEN Raise(OtherError("TypeError", "len() of headline"))
  ELSE IF PyLen(d.headline) <= HEADLINE_MAX_CHARS THEN Ok(d)
  ELSE IF d.headline.t = "str"
  THEN Ok([d EXCEPT !.headline = JStr(Prefix(d.headline.s, HEADLINE_MAX_CHARS) \o Ellipsis)])
  ELSE Raise(OtherError("TypeError", "headline[:60] + str"))

\* lines 241-244
TruncateHero(d) ==
  IF d.hero_paragraph.t # "str"
  THEN Raise(OtherError("AttributeError", "hero_paragraph has no split"))
  ELSE LET hero_words == Split(d.hero_paragraph.s)
       IN IF Len(hero_words) > HERO_MAX_WORDS
          THEN Ok([d EXCEPT !.hero_paragraph =
                     JStr(JoinSpace(Prefix(hero_words, HERO_MAX_WORDS)) \o Ellipsis)])
          ELSE Ok(d)

\* _apply_length_constraints
apply_length_constraints(d, length) ==
  CASE length = "short" ->
         LET h == TruncateHeadline(d)
         IN IF h.ok THEN TruncateHero(h.v) ELSE h
    [] length = "long" ->
         IF d.hero_paragraph.t # "str"
         THEN Raise(OtherError("AttributeError", "hero_paragraph has no split"))
         ELSE Ok(d)
    [] OTHER -> Ok(d)

\* a post-processing that pads no list
PadListNever(r, key, minimum, filler) == r

\* one of the four blocks of lines 198-217: a list shorter than its minimum
\* is extended with a filler text
PadList(r, key, minimum, filler) ==
  IF ~r.ok THEN r
  ELSE LET v == r.v[key]
       IN IF ~HasLen(v) THEN Raise(OtherError("TypeError", "len() of " \o key))
          ELSE IF PyLen(v) >= minimum THEN r
          ELSE IF v.t = "list"
          THEN Ok([r.v EXCEPT ![key] =
                     JList(v.items \o [i \in 1..(minimum - Len(v.items)) |-> Text(filler)])])
          ELSE Raise(OtherError("AttributeError", key \o " has no extend"))

\* _post_process_storyline
post_process_storyline(storyline_data, tone, length) ==
  IF storyline_data.t # "obj"
  THEN Raise(OtherError("TypeError", "storyline_data is no dict"))
  ELSE LET d0 == ApplyDefaults(storyline_data.fields)
           d1 == apply_length_constraints(d0, length)
           d2 == PadList(d1, "bulleted_features", MIN_BULLETED_FEATURES, "Additional benefit")
           d3 == PadList(d2, "use_cases", MIN_USE_CASES, "Additional use case")
           d4 == PadList(d3, "ctas", MIN_CTAS, "Take Action")
       IN PadList(d4, "social_posts", MIN_SOCIAL_POSTS, "Check out this amazing product!")

\* lines 138-143: post-process, then build the StorylineResponse
NormaliseStoryline(storyline_data, tone, length) ==
  LET p == post_process_storyline(storyline_data, tone, length)
  IN IF ~p.ok THEN p
     ELSE IF ValidStoryline(p.v) THEN Ok(StorylineResponse(p.v))
     ELSE Raise(OtherError("ValidationError", "StorylineResponse"))

-----------------------------------------------------------------------------
(* app/llm_client.py: what chat_completion hands back, and the parser.  A   *)
(* response either lacks the choices/message/content path, or carries a     *)
(* content that is null or a text; a text is valid JSON for some value or   *)
(* is not JSON.                                                             *)

RespJson(v) == [choices |-> TRUE, content |-> Some([valid |-> TRUE, value |-> v])]
RespNotJson == [choices |-> TRUE, content |-> Some([valid |-> FALSE])]
RespNullContent == [choices |-> TRUE, content |-> None]
RespNoChoices == [choices |-> FALSE]

ParseErrorMsg == "Could not parse JSON from LLM response"

(* json.loads on a text given character by character.  The grammar covers   *)
(* objects, arrays, strings without escapes, unsigned integers and null;    *)
(* whitespace is the space and the newline.                                 *)

Digits == {"0", "1", "2", "3", "4", "5", "6", "7", "8", "9"}

DigitVal(c) ==
  CASE c = "0" -> 0 [] c = "1" -> 1 [] c = "2" -> 2 [] c = "3" -> 3
    [] c = "4" -> 4 [] c = "5" -> 5 [] c = "6" -> 6 [] c = "7" -> 7
    [] c = "8" -> 8 [] c = "9" -> 9

RECURSIVE Decimal(_)
Decimal(ds) ==
  IF ds = <<>> THEN 0
  ELSE 10 * Decimal(SubSeq(ds, 1, Len(ds) - 1)) + DigitVal(ds[Len(ds)])

\* the first position from i on that holds no whitespace
SkipWs(s, i) ==
  CHOOSE j \in i..(Len(s) + 1) :
    /\ j = Len(s) + 1 \/ ~IsSpace(s[j])
    /\ \A k \in i..(j - 1) : IsSpace(s[k])

NoParse == [ok |-> FALSE]
Parsed(v, next) == [ok |-> TRUE, v |-> v, next |-> next]

\* a string literal that opens at position i
ParseString(s, i) ==
  IF i > Len(s) \/ s[i] # "\"" THEN NoParse
  ELSE IF ~\E k \in (i + 1)..Len(s) : s[k] = "\"" THEN NoParse
  ELSE LET close == CHOOSE k \in (i + 1)..Len(s) :
                      s[k] = "\"" /\ \A m \in (i + 1)..(k - 1) : s[m] # "\""
           body == SubSeq(s, i + 1, close - 1)
       IN IF \E m \in 1..Len(body) : body[m] = "\n" THEN NoParse
          ELSE Parsed(body, close + 1)

\* an unsigned integer that starts at position i
ParseNumber(s, i) ==
  LET stop == CHOOSE j \in (i + 1)..(Len(s) + 1) :
                /\ j = Len(s) + 1 \/ s[j] \notin Digits
                /\ \A k \in i..(j - 1) : s[k] \in Digits
  IN IF s[i] = "0" /\ stop > i + 1 THEN Parsed(JNum(0), i + 1)
     ELSE Parsed(JNum(Decimal(SubSeq(s, i, stop - 1))), stop)

RECURSIVE ParseValue(_, _), ParseElements(_, _, _), ParseMembers(_, _, _)

\* the value that starts at or after position i0
ParseValue(s, i0) ==
  LET i == SkipWs(s, i0)
  IN IF i > Len(s) THEN NoParse
     ELSE IF s[i] = "{"
     THEN LET j == SkipWs(s, i + 1)
          IN IF j <= Len(s) /\ s[j] = "}" THEN Parsed(JObj(<<>>), j + 1)
             ELSE ParseMembers(s, j, <<>>)
     ELSE IF s[i] = "["
     THEN LET j == SkipWs(s, i + 1)
          IN IF j <= Len(s) /\ s[j] = "]" THEN Parsed(JList(<<>>), j + 1)
             ELSE ParseElements(s, j, <<>>)
     ELSE IF s[i] = "\""
     THEN LET str == ParseString(s, i)
          IN IF str.ok THEN Parsed(JStr(str.v), str.next) ELSE NoParse
     ELSE IF s[i] \in Digits THEN ParseNumber(s, i)
     ELSE IF i + 3 <= Len(s) /\ SubSeq(s, i, i + 3) = <<"n", "u", "l", "l">>
     THEN Parsed(JNull, i + 4)
     ELSE NoParse

\* the elements of an array from position i on, after those in items
ParseElements(s, i, items) ==
  LET e == ParseValue(s, i)
  IN IF ~e.ok THEN NoParse
     ELSE LET j == SkipWs(s, e.next)
          IN IF j > Len(s) THEN NoParse
             ELSE IF s[j] = "]" THEN Parsed(JList(Append(items, e.v)), j + 1)
             ELSE IF s[j] = "," THEN ParseElements(s, j + 1, Append(items, e.v))
             ELSE NoParse

\* the members of an object from position i on, after those in fields
ParseMembers(s, i, fields) ==
  LET key == ParseString(s, i)
  IN IF ~key.ok THEN NoParse
     ELSE LET c == SkipWs(s, key.next)
          IN IF c > Len(s) \/ s[c] # ":" THEN NoParse
             ELSE LET m == ParseValue(s, c + 1)
                  IN IF ~m.ok THEN NoParse
                     ELSE LET j == SkipWs(s, m.next)
                              more == [k \in DOMAIN fields \cup {key.v} |->
                                         IF k = key.v THEN m.v ELSE fields[k]]
                          IN IF j > Len(s) THEN NoParse
                             ELSE IF s[j] = "}" THEN Parsed(JObj(more), j + 1)
                             ELSE IF s[j] = ","
                             THEN ParseMembers(s, SkipWs(s, j + 1), more)
                             ELSE NoParse

\* json.loads: one value between optional whitespace, or JSONDecodeError
json_loads(text) ==
  LET r == ParseValue(text, 1)
  IN IF r.ok /\ SkipWs(text, r.next) > Len(text) THEN Ok(r.v)
     ELSE Raise(OtherError("JSONDecodeError", "Expecting value"))

\* the backtick character
Backtick == "BACKTICK"

Fence == <<Backtick, Backtick, Backtick>>
JsonFence == Fence \o <<"j", "s", "o", "n">>

\* content[n:-3]
CutFence(content, n) ==
  IF Len(content) - 3 <= n THEN <<>> ELSE SubSeq(content, n + 1, Len(content) - 3)

\* a content that passes the fence markers by
strip_fences_never(content) == content

\* lines 230-233, on the stripped content
strip_fences(content) ==
  IF StartsWith(content, JsonFence) THEN Strip(CutFence(content, 7))
  ELSE IF StartsWith(content, Fence) THEN Strip(CutFence(content, 3))
  ELSE content

\* lines 229-237 of extract_json_response, on a content given character by
\* character
extract_json_content(content) ==
  LET loaded == json_loads(strip_fences(Strip(content)))
  IN IF loaded.ok THEN loaded ELSE Raise(LLMError(ParseErrorMsg))

\* extract_json_response, on a content given as what it parses to:
\* KeyError, IndexError and JSONDecodeError become LLMError; the
\* AttributeError of None.strip() is not caught there
extract_json_response(response) ==
  IF ~response.choices THEN Raise(LLMError(ParseErrorMsg))
  ELSE IF ~response.content.some
  THEN Raise(OtherError("AttributeError", "'NoneType' object has no attribute 'strip'"))
  ELSE IF ~response.content.v.valid THEN Raise(LLMError(ParseErrorMsg))
  ELSE Ok(response.content.v.value)

-----------------------------------------------------------------------------
(* One run of extract_features or generate_storyline, stage by stage.  A    *)
(* run is a record: op and args are the call, pc the stage to execute next  *)
(* ("done" and "failed" end the run), stages the stages executed so far,    *)
(* raised the exception as it was first raised (with the stage that raised  *)
(* it), err the exception the caller sees, value the result returned,       *)
(* cache0 the cache as the run found it, t_start and t_end the times the    *)
(* run started and ended.                                                   *)

StageOrder ==
  <<"validate", "cachecheck", "prompt", "call", "parse", "normalise",
    "cachewrite", "return">>

NoArgs == [none |-> TRUE]

IdleRun ==
  [op |-> "none", args |-> NoArgs, pc |-> "idle", stages |-> <<>>,
   key |-> <<>>, messages |-> None, response |-> None, parsed |-> None,
   value |-> None, raised |-> None, err |-> None, hit |-> FALSE,
   wrote |-> FALSE, cache0 |-> NewCache(FALSE), t_start |-> 0, t_end |-> 0]

NewRun(op, args, cache, t) ==
  [IdleRun EXCEPT !.op = op, !.args = args, !.pc = "validate",
                  !.cache0 = cache, !.t_start = t]

Ended(r) == r.pc \in {"done", "failed"}

FailPrefix(op) ==
  IF op = "extract" THEN "Feature extraction failed"
  ELSE "Storyline generation failed"

HandleExceptionWrapAll(op, e) == Wrapped(FailPrefix(op), e)

\* the except clauses that close the try block of both methods: an LLMError
\* is re-raised as it is, any other exception is raised anew as an LLMError
HandleException(op, e) ==
  IF e.type = "LLMError" THEN e ELSE Wrapped(FailPrefix(op), e)

\* a raise before the try block: the exception leaves the method as it is
RaiseOutside(st, stage, e, t) ==
  [st EXCEPT !.run.pc = "failed", !.run.raised = Some([at |-> stage, e |-> e]),
             !.run.err = Some(e), !.run.t_end = t]

RaiseInsideCaching(st, stage, e, t) ==
  [run |-> [st.run EXCEPT !.pc = "failed",
                          !.raised = Some([at |-> stage, e |-> e]),
                          !.err = Some(HandleException(st.run.op, e)),
                          !.t_end = t],
   cache |-> IF st.cache.enabled
             THEN CacheSet(st.cache, st.run.key, None, t) ELSE st.cache]

\* a raise inside the try block: an except clause handles it, and nothing
\* else happens before the method is left
RaiseInside(st, stage, e, t) ==
  [st EXCEPT !.run.pc = "failed", !.run.raised = Some([at |-> stage, e |-> e]),
             !.run.err = Some(HandleException(st.run.op, e)), !.run.t_end = t]

Log(st, stage) == [st EXCEPT !.run.stages = Append(@, stage)]

\* a validation that lets every call through
StepValidateLenient(st, t) == [Log(st, "validate") EXCEPT !.run.pc = "cachecheck"]

\* "Validate inputs"
StepValidate(st, t) ==
  LET a == st.run.args
      v == IF st.run.op = "extract"
           THEN ValidateExtract(a.product_prompt, a.max_features)
           ELSE ValidateStory(a.product_prompt, a.features)
      s == Log(st, "validate")
  IN IF v.ok THEN [s EXCEPT !.run.pc = "cachecheck"]
     ELSE RaiseOutside(s, "validate", v.err, t)

CacheKeyOf(op, a) ==
  IF op = "extract" THEN ExtractCacheKey(a.product_prompt, a.max_features)
  ELSE StoryCacheKey(a.product_prompt, a.features, a.tone, a.length, a.audience)

\* "Check cache": if self.cache and cache_key in self.cache: return ...
StepCacheCheck(st, t) ==
  LET k == CacheKeyOf(st.run.op, st.run.args)
      s == [Log(st, "cachecheck") EXCEPT !.run.key = k]
  IN IF CacheTruthy(st.cache, t) /\ CacheContains(st.cache, k, t)
     THEN [Log(s, "return") EXCEPT
             !.run.pc = "done", !.run.hit = TRUE, !.run.t_end = t,
             !.run.value = Some(CacheGet(st.cache, k, t))]
     ELSE [s EXCEPT !.run.pc = "prompt"]

SystemMessage(op, a) ==
  IF op = "extract" THEN <<"expert marketing analyst">>
  ELSE <<"expert marketing copywriter specializing in", a.tone>>

\* the prompt and the two messages
StepPrompt(st, t) ==
  LET a == st.run.args
      prompt == IF st.run.op = "extract"
                THEN get_feature_extraction_prompt(a.product_prompt, a.max_features)
                ELSE get_storyline_generation_prompt(
                       a.product_prompt, a.features, a.tone, a.length, a.audience)
  IN [Log(st, "prompt") EXCEPT
        !.run.pc = "call",
        !.run.messages = Some([system |-> SystemMessage(st.run.op, a), user |-> prompt])]

\* await self.llm_client.chat_completion(...): out is what the call does,
\* it returns a response or raises
StepCall(st, out, t) ==
  LET s == Log(st, "call")
  IN IF out.ok THEN [s EXCEPT !.run.pc = "parse", !.run.response = Some(out.v)]
     ELSE RaiseInside(s, "call", out.err, t)

\* await self.llm_client.extract_json_response(response)
StepParse(st, t) ==
  LET p == extract_json_response(st.run.response.v)
      s == Log(st, "parse")
  IN IF p.ok THEN [s EXCEPT !.run.pc = "normalise", !.run.parsed = Some(p.v)]
     ELSE RaiseInside(s, "parse", p.err, t)

\* extract_features: convert, deduplicate and rank;
\* generate_storyline: post-process and build the StorylineResponse
StepNormalise(st, t) ==
  LET a == st.run.args
      data == st.run.parsed.v
      n == IF st.run.op = "extract"
           THEN LET c == ConvertFeatures(data, a.max_features)
                IN IF c.ok THEN Ok(rank_features(deduplicate_features(c.v))) ELSE c
           ELSE NormaliseStoryline(data, a.tone, a.length)
      s == Log(st, "normalise")
  IN IF n.ok THEN [s EXCEPT !.run.pc = "cachewrite", !.run.value = Some(n.v)]
     ELSE RaiseInside(s, "normalise", n.err, t)

\* "Cache results": if self.cache: self.cache[cache_key] = ...
StepCacheWrite(st, t) ==
  LET s == [Log(st, "cachewrite") EXCEPT !.run.pc = "return"]
  IN IF CacheTruthy(st.cache, t)
     THEN [s EXCEPT !.run.wrote = TRUE,
                    !.cache = CacheSet(st.cache, st.run.key, st.run.value.v, t)]
     ELSE s

\* return features / return storyline
StepReturn(st, t) ==
  [Log(st, "return") EXCEPT !.run.pc = "done", !.run.t_end = t]

\* the stage at st.run.pc
Step(st, out, t) ==
  CASE st.run.pc = "validate"   -> StepValidate(st, t)
    [] st.run.pc = "cachecheck" -> StepCacheCheck(st, t)
    [] st.run.pc = "prompt"     -> StepPrompt(st, t)
    [] st.run.pc = "call"       -> StepCall(st, out, t)
    [] st.run.pc = "parse"      -> StepParse(st, t)
    [] st.run.pc = "normalise"  -> StepNormalise(st, t)
    [] st.run.pc = "cachewrite" -> StepCacheWrite(st, t)
    [] st.run.pc = "return"     -> StepReturn(st, t)

-----------------------------------------------------------------------------
(* The calls and the model answers the pipelines are run on *)

Feature(id, name, type, rank, confidence, phrase) ==
  [id |-> id, name |-> name, type |-> type, importance_rank |-> rank,
   confidence |-> confidence, example_phrase |-> phrase]

FPortable == Feature("f1", <<"Portable", " ", "Design">>, "benefit", 1, 95,
                     <<"Fits", " ", "in", " ", "your", " ", "hand">>)
\* as FPortable, with another example phrase
FPortable2 == Feature("f1", <<"Portable", " ", "Design">>, "benefit", 1, 95,
                      <<"Take", " ", "it", " ", "anywhere">>)
FDisplay == Feature("f2", <<"4K", " ", "Display">>, "spec", 2, 90,
                    <<"Crystal", " ", "clear">>)

PromptA == <<"a">>
PromptAPadded == <<" ", "a">>
PromptBlank == <<" ">>
PromptEmpty == <<>>

ExtractArgs(p, m) == [product_prompt |-> p, max_features |-> m]

ExtractCalls ==
  {ExtractArgs(PromptA, m) :
     m \in {MIN_MAX_FEATURES - 1, MIN_MAX_FEATURES, MAX_MAX_FEATURES,
            MAX_MAX_FEATURES + 1}}
  \cup {ExtractArgs(p, 2) : p \in {PromptEmpty, PromptBlank, PromptAPadded}}

StoryArgs(p, fs, tone, length, audience) ==
  [product_prompt |-> p, features |-> fs, tone |-> tone, length |-> length,
   audience |-> audience]

StoryCalls ==
  {StoryArgs(PromptBlank, <<FPortable>>, "friendly", "medium", None),
   StoryArgs(PromptA, <<>>, "friendly", "medium", None),
   StoryArgs(PromptA, <<FPortable>>, "friendly", "short", None),
   StoryArgs(PromptA, <<FPortable2>>, "friendly", "short", None),
   StoryArgs(PromptA, <<FPortable>>, "friendly", "short", Some(<<"default">>)),
   StoryArgs(PromptA, <<FPortable>>, "playful", "medium", None),
   StoryArgs(PromptA, <<FPortable, FDisplay>>, "luxury", "long", Some(<<"G">>))}

\* items of a feature array: complete, without id / rank / confidence,
\* a near-duplicate name, an unknown type, and an item that is no object
ItemPortable ==
  JObj([id |-> "f1", name |-> <<"Portable", " ", "Design">>, type |-> "benefit",
        importance_rank |-> 2, confidence |-> 95, example_phrase |-> <<"Fits">>])
ItemDisplayBare ==
  JObj([name |-> <<"4K", " ", "Display">>, type |-> "spec",
        example_phrase |-> <<"Crystal">>])
ItemPortableAgain ==
  JObj([id |-> "f9", name |-> <<" ", "portable", " ", "design">>, type |-> "spec",
        importance_rank |-> 1, confidence |-> 70, example_phrase |-> <<"Small">>])
ItemBadType ==
  JObj([id |-> "f4", name |-> <<"Cheap">>, type |-> "price",
        importance_rank |-> 1, confidence |-> 50, example_phrase |-> <<"Cheap">>])

ExtractAnswers ==
  {JList(<<ItemPortable, ItemDisplayBare>>),
   JList(<<ItemDisplayBare, ItemBadType, JNum(5), ItemPortable, ItemPortableAgain>>),
   JObj([features |-> JList(<<ItemPortable>>)]),
   JStr(<<"none">>)}

EmptyObject == JObj(<<>>)

GoodStory(headline_chars, n_bullets) ==
  JObj([headline |-> JStr(Rep("h", headline_chars)),
        subhead |-> Text("Subhead"),
        hero_paragraph |-> JStr(<<"Hero", " ", "text">>),
        bulleted_features |-> JList([i \in 1..n_bullets |-> Text("Bullet")]),
        persona |-> Text("Persona"),
        use_cases |-> JList(<<Text("Use 1"), Text("Use 2"), Text("Use 3")>>),
        ctas |-> JList(<<Text("Buy"), Text("Learn")>>),
        email_subject |-> Text("Subject"),
        email_body |-> Text("Body"),
        social_posts |-> JList(<<Text("Post 1"), Text("Post 2")>>)])

StoryAnswers ==
  {EmptyObject,
   GoodStory(HEADLINE_MAX_CHARS, 1),
   GoodStory(HEADLINE_MAX_CHARS + 1, 4),
   JObj([headline |-> Text("Headline"), bulleted_features |-> JStr(<<"a", "b">>)]),
   JList(<<>>)}

BackendErrors == {LLMError("LLM API request timed out")}

\* what one chat_completion call may do
BackendOutcomes(op) ==
  {Raise(e) : e \in BackendErrors}
  \cup {Ok(r) : r \in {RespNotJson, RespNullContent, RespNoChoices}}
  \cup {Ok(RespJson(v)) : v \in IF op = "extract" THEN ExtractAnswers ELSE StoryAnswers}

-----------------------------------------------------------------------------
(* The services: one FeatureExtractor and one StoryGenerator, built from    *)
(* the same settings, each with its own cache; calls are made one after     *)
(* the other.  Time passes between the calls and while a call awaits the    *)
(* completion.  prev is the previous call, when it returned a result: its   *)
(* op, args, value and the time it returned.                                *)

VARIABLES fcache, scache, now, run, prev

pipeVars == <<fcache, scache, now, run, prev>>

\* the state of the other parts of the repository, which the services
\* neither read nor write: pp (a _post_process_storyline call on its own),
\* mg (RobustMarketingGenerator.generate_storyline), ui (the session state
\* of app.py), eq (two pairs of services side by side), fn (one call of a
\* function that reads and writes no state of an object)
VARIABLES pp, mg, ui, eq, fn

vars == <<fcache, scache, now, run, prev, pp, mg, ui, eq, fn>>

Off == "off"

MaxTime == 3

PipeInit ==
  /\ \E enabled \in BOOLEAN :
       /\ fcache = NewCache(enabled)
       /\ scache = NewCache(enabled)
  /\ now = 0
  /\ run = IdleRun
  /\ prev = None
  /\ pp = Off /\ mg = Off /\ ui = Off /\ eq = Off /\ fn = Off

\* the run and the cache of the service it runs in
St == [run |-> run, cache |-> IF run.op = "extract" THEN fcache ELSE scache]

Becomes(st) ==
  /\ run' = st.run
  /\ IF run.op = "extract"
     THEN fcache' = st.cache /\ UNCHANGED scache
     ELSE scache' = st.cache /\ UNCHANGED fcache
  /\ UNCHANGED <<now, prev, pp, mg, ui, eq, fn>>

Summary(r) ==
  IF r.pc = "done"
  THEN Some([op |-> r.op, args |-> r.args, value |-> r.value.v, t_end |-> r.t_end])
  ELSE None

Tick ==
  /\ now < MaxTime
  /\ run.pc \in {"idle", "call", "done", "failed"}
  /\ now' = now + 1
  /\ UNCHANGED <<fcache, scache, run, prev, pp, mg, ui, eq, fn>>

CallExtract ==
  /\ run.pc = "idle" \/ Ended(run)
  /\ \E a \in ExtractCalls : run' = NewRun("extract", a, fcache, now)
  /\ prev' = Summary(run)
  /\ UNCHANGED <<fcache, scache, now, pp, mg, ui, eq, fn>>

CallStory ==
  /\ run.pc = "idle" \/ Ended(run)
  /\ \E a \in StoryCalls : run' = NewRun("story", a, scache, now)
  /\ prev' = Summary(run)
  /\ UNCHANGED <<fcache, scache, now, pp, mg, ui, eq, fn>>

Validate == run.pc = "validate" /\ Becomes(StepValidate(St, now))

CacheCheck == run.pc = "cachecheck" /\ Becomes(StepCacheCheck(St, now))

BuildPrompt == run.pc = "prompt" /\ Becomes(StepPrompt(St, now))

Completion ==
  /\ run.pc = "call"
  /\ \E out \in BackendOutcomes(run.op) : Becomes(StepCall(St, out, now))

Parse == run.pc = "parse" /\ Becomes(StepParse(St, now))

Normalise == run.pc = "normalise" /\ Becomes(StepNormalise(St, now))

CacheWrite == run.pc = "cachewrite" /\ Becomes(StepCacheWrite(St, now))

Return == run.pc = "return" /\ Becomes(StepReturn(St, now))

PipeNext ==
  \/ Tick
  \/ CallExtract
  \/ CallStory
  \/ Validate
  \/ CacheCheck
  \/ BuildPrompt
  \/ Completion
  \/ Parse
  \/ Normalise
  \/ CacheWrite
  \/ Return

SpecPipe == PipeInit /\ [][PipeNext]_vars

-----------------------------------------------------------------------------
(* Properties of the pipelines *)

Executed(stage) == stage \in SeqToSet(run.stages)

\* C2: with caching enabled, a call that repeats the previous call, which
\* returned a result less than the TTL before, makes no completion call and
\* returns the same result.
C2_RepeatedCallServedFromCache ==
  (/\ St.cache.enabled
   /\ prev.some
   /\ run.op = prev.v.op
   /\ run.args = prev.v.args
   /\ run.t_start < prev.v.t_end + CACHE_TTL)
  => /\ ~Executed("call")
     /\ run.pc = "done" => run.value.v = prev.v.value

\* C4: a generate_storyline run of length "short" that returns a result
\* returns a headline of at most 60 characters and at least 3 bulleted
\* features.
C4_ShortHeadlineAtMost60 ==
  (run.op = "story" /\ run.pc = "done" /\ run.args.length = "short")
  => /\ Len(run.value.v.headline.s) <= 60
     /\ Len(run.value.v.bulleted_features.items) >= 3

\* C6: the stages of a run are executed in the fixed order, each at most
\* once: a run that missed the cache has executed a prefix of the order, a
\* run served from the cache validate, cache check and return; the
\* completion call follows a passed validation and a cache miss, parsing a
\* completion call that returned, the cache write a finished normalisation;
\* a failed run executed nothing after the stage that raised.
C6_StagesInFixedOrder ==
  /\ ~run.hit => run.stages = SubSeq(StageOrder, 1, Len(run.stages))
  /\ run.hit => run.stages = <<"validate", "cachecheck", "return">>
  /\ Executed("call") =>
       /\ run.args.product_prompt \notin {PromptEmpty, PromptBlank}
       /\ run.op = "extract" => run.args.max_features \in 1..50
       /\ run.op = "story" => run.args.features # <<>>
       /\ ~run.hit
       /\ ~CacheContains(run.cache0, run.key, run.t_start)
  /\ Executed("parse") => run.response.some
  /\ Executed("cachewrite") => run.value.some
  /\ run.wrote => Executed("cachewrite")
  /\ run.pc = "done" => Executed("return")
  /\ run.pc = "failed" =>
       /\ run.stages # <<>>
       /\ run.stages[Len(run.stages)] = run.raised.v.at
       /\ ~Executed("return")

C6_Witness ==
  /\ run.pc = "failed"
  /\ run.raised.v.at = "normalise"
  /\ prev.some
  /\ prev.v.op = "extract"

\* C7: extract_features raises ValueError for a max_features outside 1..50
\* and for a prompt that is empty or blank, having executed nothing but the
\* validation; for max_features within 1..50 and a non-blank prompt the
\* validation raises nothing.
C7_ValidationBounds ==
  (run.op = "extract" /\ Executed("validate"))
  => LET a == run.args
         bad == \/ a.product_prompt \in {PromptEmpty, PromptBlank}
                \/ a.max_features < 1
                \/ a.max_features > 50
     IN /\ bad => /\ run.pc = "failed"
                   /\ run.err.v.type = "ValueError"
                   /\ run.stages = <<"validate">>
                   /\ ~run.hit
        /\ ~bad => ~(run.pc = "failed" /\ run.raised.v.at = "validate")

C7_Witness ==
  /\ run.op = "extract"
  /\ run.args.max_features = 51
  /\ run.pc = "failed"
  /\ prev.some
  /\ prev.v.op = "extract"
  /\ prev.v.args.max_features = 50

\* C8: the caller of a failed run sees a ValueError when the validation
\* raised, the very LLMError when the completion call or the parser raised
\* an LLMError, and an LLMError when anything else was raised; it sees no
\* other type.
C8_ErrorPropagation ==
  run.pc = "failed"
  => LET o == run.raised.v
         e == run.err.v
     IN /\ e.type \in {"ValueError", "LLMError"}
        /\ o.at = "validate" => (e = o.e /\ e.type = "ValueError")
        /\ o.e.type = "LLMError" => e = o.e
        /\ (o.at # "validate" /\ o.e.type # "LLMError") => e.type = "LLMError"

C8_Witness ==
  /\ run.pc = "failed"
  /\ run.raised.v.at = "normalise"
  /\ run.raised.v.e.type # "LLMError"
  /\ run.err.v.type = "LLMError"

\* C9: a failed run leaves the cache of its service as it found it.
C9_FailedRunLeavesCache ==
  run.pc = "failed" => St.cache = run.cache0

C9_Witness ==
  /\ run.pc = "failed"
  /\ St.cache.enabled
  /\ run.raised.v.at = "normalise"

-----------------------------------------------------------------------------
(* _post_process_storyline on its own: one call on a parsed object.  The    *)
(* objects are a complete storyline in which up to MaxDegenerate fields are *)
(* absent, null, empty, too short, too long or of another type, the objects *)
(* in which every field is absent, null or empty, and those with a         *)
(* headline or a hero paragraph at and above its limit.                     *)

MaxDegenerate == 2

Absent == [t |-> "absent"]

HundredWords == JoinSpace([i \in 1..HERO_MAX_WORDS |-> <<"w">>])

DegenerateValues ==
  {Absent, JNull, JStr(<<>>), JNum(5), JList(<<Text("One")>>)}

CompleteStory == GoodStory(2, MIN_BULLETED_FEATURES).fields

\* CompleteStory with the fields of f replaced by the values of f
Degenerate(f) ==
  JObj([k \in {j \in DOMAIN CompleteStory : j \notin DOMAIN f \/ f[j] # Absent} |->
          IF k \in DOMAIN f THEN f[k] ELSE CompleteStory[k]])

AllFields(v) == JObj([k \in SeqToSet(StorylineFields) |-> v])

ParsedObjects ==
  {EmptyObject, AllFields(JNull), AllFields(JStr(<<>>)), AllFields(JList(<<>>)),
   GoodStory(HEADLINE_MAX_CHARS, 1), GoodStory(HEADLINE_MAX_CHARS + 1, 4),
   JObj([CompleteStory EXCEPT !.hero_paragraph = JStr(HundredWords)]),
   JObj([CompleteStory EXCEPT !.hero_paragraph = JStr(HundredWords \o <<" ", "w">>)])}
  \cup UNION {{Degenerate(f) : f \in [S -> DegenerateValues]} :
                S \in {T \in SUBSET SeqToSet(StorylineFields) :
                         Cardinality(T) <= MaxDegenerate}}

Lengths == {"short", "medium", "long"}

PipeOff ==
  /\ fcache = NewCache(FALSE)
  /\ scache = NewCache(FALSE)
  /\ now = 0
  /\ run = IdleRun
  /\ prev = None

PPInit ==
  /\ \E d \in ParsedObjects, length \in Lengths :
       pp = [pc |-> "called", storyline_data |-> d, length |-> length, out |-> None]
  /\ PipeOff
  /\ mg = Off /\ ui = Off /\ eq = Off /\ fn = Off

PostProcess ==
  /\ pp.pc = "called"
  /\ pp' = [pp EXCEPT
              !.pc = "returned",
              !.out = Some(post_process_storyline(pp.storyline_data, "friendly", pp.length))]
  /\ UNCHANGED <<pipeVars, mg, ui, eq, fn>>

PPNext == PostProcess

SpecPP == PPInit /\ [][PPNext]_vars

\* every field of the object that is there is falsy or of its declared kind
WellTyped(d) ==
  \A k \in DOMAIN d.fields :
    \/ ~Truthy(d.fields[k])
    \/ k \in StringFields /\ d.fields[k].t = "str"
    \/ k \in ListFields /\ d.fields[k].t = "list"

MinItems ==
  [bulleted_features |-> MIN_BULLETED_FEATURES, use_cases |-> MIN_USE_CASES,
   ctas |-> MIN_CTAS, social_posts |-> MIN_SOCIAL_POSTS]

\* C1: the record _post_process_storyline returns has all ten fields, none
\* of them empty, at least 3 bulleted features and at least 2 use cases,
\* CTAs and social posts; and it returns a record for every object whose
\* fields are absent, null, empty or of their declared kind.
C1_PostProcessFillsEveryField ==
  pp.pc = "returned"
  => LET out == pp.out.v
     IN /\ out.ok =>
             /\ SeqToSet(StorylineFields) \subseteq DOMAIN out.v
             /\ \A k \in SeqToSet(StorylineFields) : Truthy(out.v[k])
             /\ \A k \in ListFields :
                  HasLen(out.v[k]) /\ PyLen(out.v[k]) >= MinItems[k]
        /\ WellTyped(pp.storyline_data) => out.ok

C1_Witness ==
  /\ pp.pc = "returned"
  /\ pp.storyline_data.fields =
       [CompleteStory EXCEPT !.bulleted_features = JList(<<Text("One")>>),
                             !.headline = JNull]
  /\ pp.out.v.ok
  /\ Len(pp.out.v.v.bulleted_features.items) = 3

-----------------------------------------------------------------------------
(* marketing_generator.py: RobustMarketingGenerator.  Texts are sequences   *)
(* of single characters here.  A reply of the Ollama server to              *)
(* /api/generate is a status code, with the lines of the "response" text    *)
(* when the code is 200, or a requests.RequestException.                    *)

preferred_models == <<"llama2", "llama3.2:1b">>

TAGLINE_PREFIX == <<"T", "A", "G", "L", "I", "N", "E", ":">>
NARRATIVE_PREFIX == <<"N", "A", "R", "R", "A", "T", "I", "V", "E", ":">>

TAGLINE_MAX_WORDS == 15
TAGLINE_MIN_WORDS == 10
TAGLINE_MAX_CHARS == 120
NARRATIVE_MAX_WORDS == 150
NARRATIVE_MIN_WORDS == 100
NARRATIVE_MAX_CHARS == 1500

\* dict.get(key)
Get(d, key) == IF key \in DOMAIN d THEN Some(d[key]) ELSE None

\* lines 92-98: the last line with a prefix gives the field
RECURSIVE ScanLines(_, _, _)
ScanLines(lines, tagline, narrative) ==
  IF lines = <<>> THEN [tagline |-> tagline, narrative |-> narrative]
  ELSE LET line == Strip(Head(lines))
       IN IF StartsWith(line, TAGLINE_PREFIX)
          THEN ScanLines(Tail(lines), Strip(Suffix(line, Len(TAGLINE_PREFIX))), narrative)
          ELSE IF StartsWith(line, NARRATIVE_PREFIX)
          THEN ScanLines(Tail(lines), tagline, Strip(Suffix(line, Len(NARRATIVE_PREFIX))))
          ELSE ScanLines(Tail(lines), tagline, narrative)

IsBlankLine(ln) == Strip(ln) = <<>>
NotBlankLine(ln) == ~IsBlankLine(ln)

\* fields that stay as the scan left them
FallbackParseNever(content, f) == f

\* lines 100-105
FallbackParse(content, f) ==
  IF f.tagline # <<>> /\ f.narrative # <<>> THEN f
  ELSE LET kept == SelectSeq(content, NotBlankLine)
           lines == [i \in 1..Len(kept) |-> Strip(kept[i])]
       IN IF lines = <<>> THEN f
          ELSE [tagline |-> IF f.tagline # <<>> THEN f.tagline
                            ELSE Prefix(lines[1], TAGLINE_MAX_CHARS),
                narrative |-> IF f.narrative # <<>> THEN f.narrative
                              ELSE Prefix(JoinSpace(Tail(lines)), NARRATIVE_MAX_CHARS)]

\* words + [""] * (minimum - len(words))
PadWords(words, minimum) ==
  words \o [i \in 1..(minimum - Len(words)) |-> <<>>]

\* a tagline that is returned as parsed
EnforceTaglineNever(tagline) == tagline

\* lines 108-112
EnforceTagline(tagline) ==
  LET tagline_words == Split(tagline)
      clipped == IF Len(tagline_words) > TAGLINE_MAX_WORDS
                 THEN JoinSpace(Prefix(tagline_words, TAGLINE_MAX_WORDS))
                 ELSE tagline
  IN IF Len(tagline_words) < TAGLINE_MIN_WORDS
     THEN Strip(Prefix(JoinSpace(PadWords(tagline_words, TAGLINE_MIN_WORDS)),
                       TAGLINE_MAX_CHARS))
     ELSE clipped

\* lines 114-118
EnforceNarrative(narrative) ==
  LET narrative_words == Split(narrative)
  IN IF Len(narrative_words) > NARRATIVE_MAX_WORDS
     THEN JoinSpace(Prefix(narrative_words, NARRATIVE_MAX_WORDS))
     ELSE IF Len(narrative_words) < NARRATIVE_MIN_WORDS
     THEN Strip(JoinSpace(PadWords(narrative_words, NARRATIVE_MIN_WORDS)))
     ELSE narrative

ReplyStatus(code, content) == [kind |-> "status", status_code |-> code, response |-> content]
ReplyException == [kind |-> "exception"]

\* _generate_once, given what the POST to /api/generate does
generate_once(product_input, model_name, reply) ==
  IF reply.kind = "exception"
  THEN [success |-> FALSE, error |-> "API request failed"]
  ELSE IF reply.status_code # 200
  THEN [success |-> FALSE, error |-> "API error " \o ToString(reply.status_code),
        status |-> reply.status_code]
  ELSE LET content == IF reply.response.some THEN reply.response.v ELSE <<>>
           f == FallbackParse(content, ScanLines(content, <<>>, <<>>))
       IN [success |-> TRUE, tagline |-> EnforceTagline(f.tagline),
           narrative |-> EnforceNarrative(f.narrative), model |-> model_name]

\* the available ones of ms, in the order of ms, none of them twice
\* a try order built without the "not in try_order" tests of lines 143, 146
RECURSIVE AppendAll(_, _, _)
AppendAll(try_order, ms, local_models) ==
  IF ms = <<>> THEN try_order
  ELSE AppendAll(IF Head(ms) \in SeqToSet(local_models)
                 THEN Append(try_order, Head(ms)) ELSE try_order,
                 Tail(ms), local_models)

RECURSIVE AppendNew(_, _, _)
AppendNew(try_order, ms, local_models) ==
  IF ms = <<>> THEN try_order
  ELSE AppendNew(IF Head(ms) \in SeqToSet(local_models)
                    /\ Head(ms) \notin SeqToSet(try_order)
                 THEN Append(try_order, Head(ms)) ELSE try_order,
                 Tail(ms), local_models)

\* _resolve_models: listed is what list_models returns first, pulled whether
\* pull_model succeeds, relisted what list_models returns after the pull
\* lines 130-137: the models listed locally once the fallback was pulled
local_models_after_pull(listed, pulled, relisted) ==
  IF "llama3.2:1b" \notin SeqToSet(listed) /\ pulled THEN relisted ELSE listed

resolve_models(listed, pulled, relisted) ==
  LET local_models == local_models_after_pull(listed, pulled, relisted)
  IN AppendNew(AppendNew(<<>>, preferred_models, local_models),
               local_models, local_models)

ServiceDown == [success |-> FALSE, error |-> "Ollama service not running. Start it and retry."]
NoModels == [success |-> FALSE, error |-> "No local models available. Pull a model (e.g., 'ollama pull llama3.2:1b')."]
AllFailed == [success |-> FALSE, error |-> "All generation attempts failed with available models."]

\* lines 180-183: whether the loop goes on to the next model after a failed
\* attempt; the continue and the end of the loop body both do
TriesNextModel(status) == IF status = Some(500) THEN TRUE ELSE TRUE

\* n words, a blank between two
Words(n) == JoinSpace([i \in 1..n |-> <<"w">>])

Contents ==
  {<<TAGLINE_PREFIX \o <<" ">> \o Words(12), NARRATIVE_PREFIX \o <<" ">> \o Words(120)>>,
   <<Words(3), <<" ">>, Words(5)>>,
   <<Words(3)>>,
   <<>>}

Replies ==
  {ReplyStatus(code, None) : code \in {500, 503, 404}}
  \cup {ReplyStatus(200, Some(c)) : c \in Contents}
  \cup {ReplyStatus(200, None), ReplyException}

\* what GET /api/tags may list
ModelLists ==
  {<<>>, <<"llama2">>, <<"mistral">>, <<"mistral", "llama2">>,
   <<"mistral", "llama3.2:1b", "llama2">>, <<"mistral", "mistral">>}

ProductInputs == {<<"p">>}

MGIdle ==
  [pc |-> "idle", product_input |-> <<>>, local_models |-> <<>>,
   try_order |-> <<>>, attempts |-> <<>>, result |-> None]

MGInit ==
  /\ mg = MGIdle
  /\ PipeOff
  /\ pp = Off /\ ui = Off /\ eq = Off /\ fn = Off

\* generate_storyline is called
MGCall ==
  /\ mg.pc \in {"idle", "returned"}
  /\ \E p \in ProductInputs :
       mg' = [MGIdle EXCEPT !.pc = "health", !.product_input = p]
  /\ UNCHANGED <<pipeVars, pp, ui, eq, fn>>

\* lines 162-166
MGHealthCheck ==
  /\ mg.pc = "health"
  /\ \E healthy \in BOOLEAN :
       mg' = IF healthy THEN [mg EXCEPT !.pc = "resolve"]
             ELSE [mg EXCEPT !.pc = "returned", !.result = Some(ServiceDown)]
  /\ UNCHANGED <<pipeVars, pp, ui, eq, fn>>

\* lines 168-173
MGResolve ==
  /\ mg.pc = "resolve"
  /\ \E listed \in ModelLists, pulled \in BOOLEAN, relisted \in ModelLists :
       LET try_order == resolve_models(listed, pulled, relisted)
           found == [mg EXCEPT !.local_models =
                                 local_models_after_pull(listed, pulled, relisted)]
       IN mg' = IF try_order = <<>>
                THEN [found EXCEPT !.pc = "returned", !.result = Some(NoModels)]
                ELSE [found EXCEPT !.pc = "attempt", !.try_order = try_order]
  /\ UNCHANGED <<pipeVars, pp, ui, eq, fn>>

\* lines 176-187: one pass of the loop body, and what follows the loop when
\* the pass was the last
MGAttempt ==
  /\ mg.pc = "attempt"
  /\ \E reply \in Replies :
       LET model == mg.try_order[Len(mg.attempts) + 1]
           res == generate_once(mg.product_input, model, reply)
           tried == Append(mg.attempts, [model |-> model, res |-> res])
       IN mg' = IF res.success
                THEN [mg EXCEPT !.pc = "returned", !.attempts = tried,
                                !.result = Some(res)]
                ELSE IF TriesNextModel(Get(res, "status"))
                        /\ Len(tried) < Len(mg.try_order)
                THEN [mg EXCEPT !.attempts = tried]
                ELSE [mg EXCEPT !.pc = "returned", !.attempts = tried,
                                !.result = Some(AllFailed)]
  /\ UNCHANGED <<pipeVars, pp, ui, eq, fn>>

MGNext ==
  \/ MGCall
  \/ MGHealthCheck
  \/ MGResolve
  \/ MGAttempt

SpecMG == MGInit /\ [][MGNext]_vars

\* C3: an attempt on a further model is made only after the attempt before
\* it reported the HTTP status 500.
C3_NextModelOnlyAfter500 ==
  mg.pc \in {"attempt", "returned"}
  => \A j \in 1..(Len(mg.attempts) - 1) :
       Get(mg.attempts[j].res, "status") = Some(500)

-----------------------------------------------------------------------------
(* app.py: the session state of the Streamlit page.  Every interaction runs *)
(* the script once: with no button pressed, with "Clear All" pressed, or    *)
(* with "Generate Storyline -> Scenes" pressed; the text area hands the     *)
(* script the text the user has typed.  scenes_from and last are not in the *)
(* session state: scenes_from is the storyline that was passed to the       *)
(* generate_scenes call whose result is stored, last records what the last  *)
(* script run was and the results stored before it.                         *)

SCENES_FAILED == "Scene generation failed. Check model logs."

\* lines 15-22
NewSession == [prompt |-> <<>>, storyline |-> None, scenes |-> None, error |-> None]

\* lines 32-35, and the text area showing the emptied prompt on the rerun
ClearSession(ss) == NewSession

\* a failure that leaves the stored results alone
OnStorylineFailureKeeping(ss, res) ==
  [ss EXCEPT !.error = Some(res.error)]

\* lines 62-64
OnStorylineFailure(ss, res) ==
  [ss EXCEPT !.storyline = None, !.scenes = None,
             !.error = IF "error" \in DOMAIN res THEN Some(res.error)
                       ELSE Some("Storyline generation failed.")]

\* lines 66-71
StorylineOf(res) ==
  [tagline |-> IF "tagline" \in DOMAIN res THEN res.tagline ELSE <<>>,
   narrative |-> IF "narrative" \in DOMAIN res THEN res.narrative ELSE <<>>,
   model |-> IF "model" \in DOMAIN res THEN res.model ELSE ""]

\* lines 82-86: scenes is what generate_scenes returned, None or a list
OnScenes(ss, scenes) ==
  IF ~scenes.some \/ scenes.v = <<>>
  THEN [ss EXCEPT !.scenes = None, !.error = Some(SCENES_FAILED)]
  ELSE [ss EXCEPT !.scenes = scenes]

\* what generate_storyline may return to the page
StorylineResults ==
  {ServiceDown, NoModels, AllFailed}
  \cup {generate_once(<<"p">>, m, r) :
           m \in {"llama2", "mistral"},
           r \in {x \in Replies : x.kind = "status" /\ x.status_code = 200}}

\* what generate_scenes may return
SceneResults == {None, Some(<<>>), Some(<<"scene 1", "scene 2">>)}

TypedPrompts == {<<>>, <<" ">>, <<"p">>}

Stored(ss) == [storyline |-> ss.storyline, scenes |-> ss.scenes]

Session == [prompt |-> ui.prompt, storyline |-> ui.storyline, scenes |-> ui.scenes,
            error |-> ui.error]

\* the page after a script run of the given kind that left the session ss
Page(ss, scenes_from, kind, res) ==
  [prompt |-> ss.prompt, storyline |-> ss.storyline, scenes |-> ss.scenes,
   error |-> ss.error, scenes_from |-> scenes_from,
   last |-> [kind |-> kind, before |-> Stored(Session), res |-> res]]

UIInit ==
  /\ ui = [prompt |-> <<>>, storyline |-> None, scenes |-> None, error |-> None,
           scenes_from |-> None,
           last |-> [kind |-> "first", before |-> Stored(NewSession), res |-> None]]
  /\ PipeOff
  /\ pp = Off /\ mg = Off /\ eq = Off /\ fn = Off

\* a script run with no button pressed: line 39
Rerun ==
  /\ \E text \in TypedPrompts :
       ui' = Page([Session EXCEPT !.prompt = text], ui.scenes_from, "rerun", None)
  /\ UNCHANGED <<pipeVars, pp, mg, eq, fn>>

\* lines 31-36
ClearAll ==
  /\ ui' = Page(ClearSession(Session), None, "clear", None)
  /\ UNCHANGED <<pipeVars, pp, mg, eq, fn>>

\* lines 51-55: the button pressed over a prompt that is empty or blank
GenerateBlank ==
  /\ \E text \in TypedPrompts :
       /\ Strip(text) = <<>>
       /\ ui' = Page([Session EXCEPT !.prompt = text, !.error = None],
                     ui.scenes_from, "blank", None)
  /\ UNCHANGED <<pipeVars, pp, mg, eq, fn>>

\* lines 51-64: generate_storyline reports a failure
GenerateStorylineFails ==
  /\ \E text \in TypedPrompts, res \in StorylineResults :
       /\ Strip(text) # <<>>
       /\ ~res.success
       /\ LET ss == OnStorylineFailure([Session EXCEPT !.prompt = text, !.error = None], res)
          IN ui' = Page(ss, IF ss.scenes.some THEN ui.scenes_from ELSE None,
                        "storyline_failed", Some(res))
  /\ UNCHANGED <<pipeVars, pp, mg, eq, fn>>

\* lines 51-75: the storyline is stored, then SceneGenerator(Config())
\* raises, which ends the script run
GenerateAborted ==
  /\ \E text \in TypedPrompts, res \in StorylineResults :
       /\ Strip(text) # <<>>
       /\ res.success
       /\ ui' = Page([Session EXCEPT !.prompt = text, !.error = None,
                                     !.storyline = Some(StorylineOf(res))],
                     ui.scenes_from, "aborted", Some(res))
  /\ UNCHANGED <<pipeVars, pp, mg, eq, fn>>

\* lines 51-86: the storyline is stored and generate_scenes returns
GenerateScenes ==
  /\ \E text \in TypedPrompts, res \in StorylineResults, scenes \in SceneResults :
       /\ Strip(text) # <<>>
       /\ res.success
       /\ LET storyline == StorylineOf(res)
              ss == OnScenes([Session EXCEPT !.prompt = text, !.error = None,
                                            !.storyline = Some(storyline)], scenes)
          IN ui' = Page(ss, IF ss.scenes.some THEN Some(storyline) ELSE None,
                        IF ss.scenes.some THEN "success" ELSE "scenes_failed",
                        Some(res))
  /\ UNCHANGED <<pipeVars, pp, mg, eq, fn>>

UINext ==
  \/ Rerun
  \/ ClearAll
  \/ GenerateBlank
  \/ GenerateStorylineFails
  \/ GenerateAborted
  \/ GenerateScenes

SpecUI == UIInit /\ [][UINext]_vars

FailedRun == ui.last.kind \in {"storyline_failed", "scenes_failed"}

\* C5 as stated: a run that fails after a successful one leaves the stored
\* storyline and scenes as they were and records the error message.
C5_FailedRunKeepsResults ==
  (FailedRun /\ ui.last.before.scenes.some)
  => /\ ui.storyline = ui.last.before.storyline
     /\ ui.scenes = ui.last.before.scenes
     /\ ui.error.some

\* C5: a run whose storyline generation fails clears the stored storyline
\* and scenes and records the error of the result; a run whose scene
\* generation returns nothing stores the new storyline, clears the stored
\* scenes and records the scene error; an empty prompt changes nothing stored.
C5_FailedRunReplacesResults ==
  /\ ui.last.kind = "storyline_failed"
     => /\ ui.storyline = None
        /\ ui.scenes = None
        /\ ui.error = Some(ui.last.res.v.error)
  /\ ui.last.kind = "scenes_failed"
     => /\ ui.storyline = Some(StorylineOf(ui.last.res.v))
        /\ ui.scenes = None
        /\ ui.error = Some(SCENES_FAILED)
  /\ ui.last.kind = "blank"
     => /\ Stored(Session) = ui.last.before
        /\ ui.error = None

C5_Witness ==
  /\ ui.last.kind = "storyline_failed"
  /\ ui.last.before.scenes.some
  /\ ui.scenes = None

-----------------------------------------------------------------------------
(* Two pairs of services side by side: one pair built with CACHE_ENABLED    *)
(* true, the other with CACHE_ENABLED false.  Both are given the same       *)
(* calls at the same times and talk to the same completion backend, which   *)
(* is deterministic: what it does is a function of the messages it gets.    *)
(* A call runs from its first stage to its end.                             *)

MaxCalls == 3

Backends == {"echo", "bare", "garbage", "down"}

\* the text of the user message, as the echo backend repeats it
Echo(messages) == <<ToString(messages.user)>>

\* the completion of a backend for the messages of a call
Respond(backend, op, messages) ==
  CASE backend = "down" -> Raise(LLMError("LLM API request timed out"))
    [] backend = "garbage" -> Ok(RespNotJson)
    [] backend = "bare" ->
         Ok(RespJson(IF op = "extract" THEN JList(<<ItemDisplayBare, ItemBadType>>)
                     ELSE EmptyObject))
    [] backend = "echo" ->
         Ok(RespJson(
           IF op = "extract"
           THEN JList(<<JObj([name |-> <<"Echo">>, type |-> "benefit",
                               example_phrase |-> Echo(messages)])>>)
           ELSE JObj([GoodStory(2, MIN_BULLETED_FEATURES).fields
                        EXCEPT !.email_body = JStr(Echo(messages))])))

\* the run from the stage it is at to its end
RECURSIVE RunToEnd(_, _, _)
RunToEnd(st, backend, t) ==
  IF Ended(st.run) THEN st
  ELSE RunToEnd(Step(st,
                     IF st.run.pc = "call"
                     THEN Respond(backend, st.run.op, st.run.messages.v)
                     ELSE Ok(RespNoChoices),
                     t),
                backend, t)

\* a whole call of a service with the given cache
CallService(op, args, cache, backend, t) ==
  RunToEnd([run |-> NewRun(op, args, cache, t), cache |-> cache], backend, t)

\* what the caller gets: the value returned or the exception raised
Outcome(r) == IF r.pc = "done" THEN Ok(r.value.v) ELSE Raise(r.err.v)

CompletionCalls(r) == IF "call" \in SeqToSet(r.stages) THEN 1 ELSE 0

EqInit ==
  /\ \E backend \in Backends :
       eq = [backend |-> backend, now |-> 0, n |-> 0,
             fcache_on |-> NewCache(TRUE), scache_on |-> NewCache(TRUE),
             fcache_off |-> NewCache(FALSE), scache_off |-> NewCache(FALSE),
             result_on |-> None, result_off |-> None,
             completions_on |-> 0, completions_off |-> 0,
             call |-> None, repeated |-> FALSE]
  /\ PipeOff
  /\ pp = Off /\ mg = Off /\ ui = Off /\ fn = Off

EqTick ==
  /\ eq.now < MaxTime
  /\ eq' = [eq EXCEPT !.now = @ + 1]
  /\ UNCHANGED <<pipeVars, pp, mg, ui, fn>>

EqCallExtract ==
  /\ eq.n < MaxCalls
  /\ \E a \in ExtractCalls :
       LET on == CallService("extract", a, eq.fcache_on, eq.backend, eq.now)
           off == CallService("extract", a, eq.fcache_off, eq.backend, eq.now)
           c == Some([op |-> "extract", args |-> a])
       IN eq' = [eq EXCEPT
                   !.n = @ + 1,
                   !.fcache_on = on.cache, !.fcache_off = off.cache,
                   !.result_on = Some(Outcome(on.run)),
                   !.result_off = Some(Outcome(off.run)),
                   !.completions_on = @ + CompletionCalls(on.run),
                   !.completions_off = @ + CompletionCalls(off.run),
                   !.call = c, !.repeated = (eq.call = c)]
  /\ UNCHANGED <<pipeVars, pp, mg, ui, fn>>

EqCallStory ==
  /\ eq.n < MaxCalls
  /\ \E a \in StoryCalls :
       LET on == CallService("story", a, eq.scache_on, eq.backend, eq.now)
           off == CallService("story", a, eq.scache_off, eq.backend, eq.now)
           c == Some([op |-> "story", args |-> a])
       IN eq' = [eq EXCEPT
                   !.n = @ + 1,
                   !.scache_on = on.cache, !.scache_off = off.cache,
                   !.result_on = Some(Outcome(on.run)),
                   !.result_off = Some(Outcome(off.run)),
                   !.completions_on = @ + CompletionCalls(on.run),
                   !.completions_off = @ + CompletionCalls(off.run),
                   !.call = c, !.repeated = (eq.call = c)]
  /\ UNCHANGED <<pipeVars, pp, mg, ui, fn>>

EqNext ==
  \/ EqTick
  \/ EqCallExtract
  \/ EqCallStory

SpecEquiv == EqInit /\ [][EqNext]_vars

\* C10: after every sequence of calls, the result the services with caching
\* enabled returned for the last call is the result the services with
\* caching disabled returned for it, and the former have made no more
\* completion calls than the latter.
C10_CachingChangesNoResult ==
  /\ eq.result_on = eq.result_off
  /\ eq.completions_on <= eq.completions_off

C10_Witness ==
  /\ eq.repeated
  /\ eq.n = MaxCalls
  /\ eq.call.v.op = "story"
  /\ eq.result_on.v.ok
  /\ eq.backend = "echo"

-----------------------------------------------------------------------------
(* FeatureExtractor._names_similar, _deduplicate_features and               *)
(* _rank_features on their own: one call on a list of up to MaxFeatures     *)
(* features, and the two applied one after the other, twice.                *)

MaxFeatures == 3

Named(id, name, rank, confidence) ==
  Feature(id, name, "benefit", rank, confidence, <<"Test">>)

FeaturePool ==
  {Named("f1", <<"Portable", " ", "Design">>, 3, 70),
   Named("f2", <<"Portable">>, 1, 90),
   Named("f3", <<"4K", " ", "Display">>, 2, 80),
   Named("f4", <<"4K", " ", "Resolution">>, 1, 70),
   Named("f5", <<"Wireless">>, 1, 90),
   Named("f6", <<" ", "portable", " ", " ", "design", " ">>, 2, 80),
   Named("f7", <<"a", " ", "b", " ", "c", " ", "d">>, 2, 95),
   Named("f8", <<"a", " ", "b", " ", "c", " ", "d", " ", "e">>, 3, 80),
   Named("f9", <<"a", " ", "b", " ", "c">>, 3, 70),
   Named("f10", <<" ">>, 1, 50)}

FeatureLists == UNION {[1..n -> FeaturePool] : n \in 0..MaxFeatures}

\* feature.name.lower().strip()
Normalized(f) == Strip(Lower(f.name))

FeatInit ==
  /\ \E features \in FeatureLists :
       fn = [pc |-> "called", op |-> "none", features |-> features, out |-> None]
  /\ PipeOff
  /\ pp = Off /\ mg = Off /\ ui = Off /\ eq = Off

\* _names_similar on the normalized names of the first two features
NamesSimilar ==
  /\ fn.pc = "called"
  /\ Len(fn.features) >= 2
  /\ fn' = [fn EXCEPT
              !.pc = "returned", !.op = "similar",
              !.out = Some(names_similar(Normalized(fn.features[1]),
                                         Normalized(fn.features[2])))]
  /\ UNCHANGED <<pipeVars, pp, mg, ui, eq>>

Deduplicate ==
  /\ fn.pc = "called"
  /\ fn' = [fn EXCEPT !.pc = "returned", !.op = "deduplicate",
                      !.out = Some(deduplicate_features(fn.features))]
  /\ UNCHANGED <<pipeVars, pp, mg, ui, eq>>

Rank ==
  /\ fn.pc = "called"
  /\ fn' = [fn EXCEPT !.pc = "returned", !.op = "rank",
                      !.out = Some(rank_features(fn.features))]
  /\ UNCHANGED <<pipeVars, pp, mg, ui, eq>>

\* lines 123-125: deduplicate, then rank
DeduplicateAndRank ==
  /\ fn.pc = "called"
  /\ fn' = [fn EXCEPT !.pc = "normalised", !.op = "both",
                      !.out = Some(rank_features(deduplicate_features(fn.features)))]
  /\ UNCHANGED <<pipeVars, pp, mg, ui, eq>>

\* the same on the list that came out
DeduplicateAndRankAgain ==
  /\ fn.pc = "normalised"
  /\ fn' = [fn EXCEPT !.pc = "returned", !.op = "again", !.features = fn.out.v,
                      !.out = Some(rank_features(deduplicate_features(fn.out.v)))]
  /\ UNCHANGED <<pipeVars, pp, mg, ui, eq>>

FeatNext ==
  \/ NamesSimilar
  \/ Deduplicate
  \/ Rank
  \/ DeduplicateAndRank
  \/ DeduplicateAndRankAgain

SpecFeat == FeatInit /\ [][FeatNext]_vars

\* |intersection| / |union| >= 0.8 for the word sets of two names
Jaccard80(name1, name2) ==
  LET w1 == SeqToSet(Split(name1))
      w2 == SeqToSet(Split(name2))
  IN /\ w1 \cup w2 # {}
     /\ 5 * Cardinality(w1 \cap w2) >= 4 * Cardinality(w1 \cup w2)

\* the positions of fs that a greedy pass keeps: position i is kept when
\* its name is similar to the name at no kept position before it
RECURSIVE KeptUpTo(_, _)
KeptUpTo(fs, i) ==
  IF i = 0 THEN {}
  ELSE LET before == KeptUpTo(fs, i - 1)
       IN IF \E j \in before : Jaccard80(Normalized(fs[i]), Normalized(fs[j]))
          THEN before ELSE before \cup {i}

\* the subsequence of fs at the positions of keep
Subsequence(fs, keep) ==
  LET Kept(i) == i \in keep
      idx == SelectSeq([i \in 1..Len(fs) |-> i], Kept)
  IN [k \in 1..Len(idx) |-> fs[idx[k]]]

PortableDesign == <<"Portable", " ", "Design">>
Portable == <<"Portable">>
Display4K == <<"4K", " ", "Display">>

Names(fs) == [i \in 1..Len(fs) |-> fs[i].name]

C12_SharedWordIsSimilar ==
  /\ fn.op = "similar"
     => LET n1 == Normalized(fn.features[1])
            n2 == Normalized(fn.features[2])
        IN /\ <<n1, n2>> = <<Lower(PortableDesign), Lower(Portable)>> => fn.out.v
           /\ <<n1, n2>> = <<Lower(Display4K), <<"4k", " ", "resolution">>>>
                => fn.out.v
           /\ SeqToSet(Split(n1)) \cap SeqToSet(Split(n2)) = {} => ~fn.out.v
  /\ (fn.op = "deduplicate"
      /\ Names(fn.features) = <<PortableDesign, Portable, Display4K>>)
     => Names(fn.out.v) = <<PortableDesign, Display4K>>

\* C13: _rank_features returns its input rearranged, in the order of
\* importance_rank ascending and, among equal ranks, confidence descending,
\* with importance_rank set to 1..N; ranks 3, 1, 2 with confidences 0.7, 0.9,
\* 0.8 come out as the rank-1, rank-2, rank-3 items with ranks 1, 2, 3.
C13_RankSortsAndRenumbers ==
  (fn.op = "rank")
  => LET in == fn.features
         out == fn.out.v
         N == Len(in)
     IN /\ Len(out) = N
        /\ \E p \in [1..N -> 1..N] :
             /\ \A i, j \in 1..N : p[i] = p[j] => i = j
             /\ \A i \in 1..N : out[i] = [in[p[i]] EXCEPT !.importance_rank = i]
             /\ \A i \in 1..(N - 1) :
                  \/ in[p[i]].importance_rank < in[p[i + 1]].importance_rank
                  \/ /\ in[p[i]].importance_rank = in[p[i + 1]].importance_rank
                     /\ in[p[i]].confidence >= in[p[i + 1]].confidence
        /\ [i \in 1..N |-> <<in[i].importance_rank, in[i].confidence>>]
             = <<<<3, 70>>, <<1, 90>>, <<2, 80>>>>
           => out = <<[in[2] EXCEPT !.importance_rank = 1],
                      [in[3] EXCEPT !.importance_rank = 2],
                      [in[1] EXCEPT !.importance_rank = 3]>>

C13_Witness ==
  /\ fn.op = "rank"
  /\ Len(fn.features) = 3
  /\ fn.features[1].id = "f1"
  /\ fn.features[2].id = "f4"
  /\ fn.features[3].id = "f5"
  /\ fn.out.v[1].id = "f5"
  /\ fn.out.v[2].id = "f4"

\* C14: deduplicating and ranking the list that deduplicating and ranking
\* returned gives that list again.
C14_DedupRankIdempotent ==
  (fn.op = "again") => fn.out.v = fn.features

C14_Witness ==
  /\ fn.op = "again"
  /\ Len(fn.out.v) = 2
  /\ fn.out.v[1].id = "f2"
  /\ fn.out.v[2].id = "f6"

-----------------------------------------------------------------------------
(* description.py: SceneGenerator.generate_scenes from the answer of        *)
(* /api/generate on.  A reply is an exception of requests or a status with  *)
(* a body; the body is null, a list, or an object with or without the       *)
(* "response" text.                                                         *)

ScenesKey == <<"s", "c", "e", "n", "e", "s">>

\* text.find(c) and text.rfind(c), positions from 1, 0 when c is absent
Find(text, c) ==
  IF \E i \in 1..Len(text) : text[i] = c
  THEN CHOOSE i \in 1..Len(text) : text[i] = c /\ \A k \in 1..(i - 1) : text[k] # c
  ELSE 0

RFind(text, c) ==
  IF \E i \in 1..Len(text) : text[i] = c
  THEN CHOOSE i \in 1..Len(text) :
         text[i] = c /\ \A k \in (i + 1)..Len(text) : text[k] # c
  ELSE 0

\* a text that is parsed as it came
SliceBracesNever(text) == text

\* lines 101-103
SliceBraces(text) ==
  LET start == Find(text, "{")
      end == RFind(text, "}")
  IN IF start # 0 /\ end # 0 /\ end > start THEN SubSeq(text, start, end)
     ELSE text

SceneException == [exception |-> TRUE]
SceneReply(status, body) == [exception |-> FALSE, status |-> status, body |-> body]
BodyText(text) == [kind |-> "dict", response |-> Some(text)]
BodyNoResponse == [kind |-> "dict", response |-> None]
BodyNull == [kind |-> "null"]
BodyList == [kind |-> "list"]

\* lines 87-117
generate_scenes(reply) ==
  IF reply.exception THEN Ok(None)
  ELSE IF reply.status # 200 THEN Ok(None)
  ELSE IF reply.body.kind = "list"
  THEN Raise(OtherError("AttributeError", "'list' object has no attribute 'get'"))
  ELSE LET text == IF reply.body.kind = "null" \/ ~reply.body.response.some
                   THEN <<>> ELSE reply.body.response.v
           scene_data == json_loads(SliceBraces(text))
       IN IF ~scene_data.ok THEN Ok(None)
          ELSE IF /\ scene_data.v.t = "obj"
                  /\ ScenesKey \in DOMAIN scene_data.v.fields
                  /\ scene_data.v.fields[ScenesKey].t = "list"
          THEN Ok(Some(scene_data.v.fields[ScenesKey].items))
          ELSE Ok(None)

-----------------------------------------------------------------------------
(* The two parsers on texts: a text is a JSON text or not, bare or wrapped  *)
(* in a fenced block, in whitespace or in commentary.                       *)

Quoted(chars) == <<"\"">> \o chars \o <<"\"">>

JsonTexts ==
  {<<"{">> \o Quoted(<<"k">>) \o <<":", "1", "}">>,
   <<"{">> \o Quoted(ScenesKey) \o <<":", "[", "1", ",", "2", "]", "}">>,
   <<"{">> \o Quoted(ScenesKey) \o <<":", " ", "[", "{">> \o Quoted(<<"k">>)
      \o <<":", " ", "3", "}", "]", "}">>,
   <<"{">> \o Quoted(ScenesKey) \o <<":", "[", "]", "}">>,
   <<"{">> \o Quoted(ScenesKey) \o <<":", "{", "}", "}">>,
   <<"{">> \o Quoted(ScenesKey) \o <<":", "n", "u", "l", "l", ",">>
      \o Quoted(<<"k">>) \o <<":">> \o Quoted(<<"v", " ", "w">>) \o <<"}">>,
   <<"{", "}">>,
   <<"[", "1", "]">>,
   <<"1", "2">>,
   Quoted(<<"k">>),
   <<"n", "u", "l", "l">>}

OtherTexts ==
  {<<>>,
   <<"k">>,
   <<"}", "{">>,
   <<"{">> \o Quoted(ScenesKey) \o <<":", "[", "1", "]">>,
   <<"{">> \o Quoted(<<"k">>) \o <<":", "1", "}", " ", "{", "}">>,
   <<"[", "0", "1", "]">>}

Texts == JsonTexts \cup OtherTexts

FencedWraps == {"json", "json tight", "json padded", "bare", "bare padded", "js"}
Wraps == FencedWraps \cup {"none", "padded", "commentary"}

Wrap(w, text) ==
  CASE w = "none" -> text
    [] w = "padded" -> <<" ", "\n">> \o text \o <<"\n">>
    [] w = "commentary" -> <<"H", "e", "r", "e", ":", " ">> \o text \o <<" ", "O", "K">>
    [] w = "json" -> JsonFence \o <<"\n">> \o text \o <<"\n">> \o Fence
    [] w = "json tight" -> JsonFence \o text \o Fence
    [] w = "json padded" ->
         <<"\n", " ">> \o JsonFence \o <<"\n">> \o text \o <<" ", "\n">> \o Fence \o <<"\n">>
    [] w = "bare" -> Fence \o <<"\n">> \o text \o <<"\n">> \o Fence
    [] w = "bare padded" -> <<" ">> \o Fence \o <<" ">> \o text \o <<"\n">> \o Fence \o <<" ">>
    [] w = "js" -> Fence \o <<"j", "s", "\n">> \o text \o <<"\n">> \o Fence

SceneReplies(text) ==
  {SceneException, SceneReply(200, BodyText(text)), SceneReply(500, BodyText(text)),
   SceneReply(404, BodyNull), SceneReply(200, BodyNoResponse),
   SceneReply(200, BodyNull), SceneReply(200, BodyList)}

ParseInit ==
  /\ \E text \in Texts, w \in Wraps :
       fn = [pc |-> "called", op |-> "none", text |-> text, wrap |-> w,
             content |-> Wrap(w, text), reply |-> None, out |-> None, bare |-> None]
  /\ PipeOff
  /\ pp = Off /\ mg = Off /\ ui = Off /\ eq = Off

\* extract_json_response on the content, and on the bare text beside it
ExtractJson ==
  /\ fn.pc = "called"
  /\ fn' = [fn EXCEPT
              !.pc = "returned", !.op = "extract",
              !.out = Some(extract_json_content(fn.content)),
              !.bare = Some(extract_json_content(fn.text))]
  /\ UNCHANGED <<pipeVars, pp, mg, ui, eq>>

\* generate_scenes on a reply, and on the same reply with the bare text
GenerateScenesFrom ==
  /\ fn.pc = "called"
  /\ \E reply \in SceneReplies(fn.content) :
       fn' = [fn EXCEPT
                !.pc = "returned", !.op = "scenes", !.reply = Some(reply),
                !.out = Some(generate_scenes(reply)),
                !.bare = Some(generate_scenes(
                           IF ~reply.exception /\ reply.body = BodyText(fn.content)
                           THEN [reply EXCEPT !.body = BodyText(fn.text)]
                           ELSE reply))]
  /\ UNCHANGED <<pipeVars, pp, mg, ui, eq>>

ParseNext ==
  \/ ExtractJson
  \/ GenerateScenesFrom

SpecParse == ParseInit /\ [][ParseNext]_vars

\* the reply carried a text with status 200
AnsweredText ==
  /\ fn.op = "scenes"
  /\ ~fn.reply.v.exception
  /\ fn.reply.v.status = 200
  /\ fn.reply.v.body = BodyText(fn.content)

\* the text is {"scenes": [...]}, possibly with further members
ScenesForm(text) ==
  LET v == json_loads(text)
  IN /\ v.ok
     /\ v.v.t = "obj"
     /\ ScenesKey \in DOMAIN v.v.fields
     /\ v.v.fields[ScenesKey].t = "list"

\* C15: for a JSON text wrapped in a fenced block, with the tag json, with
\* another tag or with none, and with or without whitespace around it,
\* extract_json_response returns what it returns for the bare text, and so
\* does generate_scenes for a text of the form {"scenes": [...]}.
C15_FencedParsesAsBare ==
  /\ (fn.op = "extract" /\ fn.wrap \in FencedWraps /\ fn.text \in JsonTexts)
     => fn.out = fn.bare
  /\ (AnsweredText /\ fn.wrap \in FencedWraps /\ ScenesForm(fn.text))
     => fn.out = fn.bare

\* C15 (as the code has it): the same for a fenced block whose tag is json
\* or that has no tag; generate_scenes does so for every tag.
C15_JsonFenceParsesAsBare ==
  /\ (fn.op = "extract" /\ fn.wrap \in FencedWraps \ {"js"} /\ fn.text \in JsonTexts)
     => fn.out = fn.bare /\ fn.out.v = json_loads(fn.text) /\ fn.out.v.ok
  /\ (AnsweredText /\ fn.wrap \in FencedWraps /\ ScenesForm(fn.text))
     => fn.out = fn.bare /\ fn.out.v.ok /\ fn.out.v.v.some

C15_Witness ==
  /\ fn.op = "extract"
  /\ fn.wrap = "json padded"
  /\ fn.text = <<"{">> \o Quoted(<<"k">>) \o <<":", "1", "}">>
  /\ fn.out.v = Ok(JObj([key \in {<<"k">>} |-> JNum(1)]))

\* C16: generate_scenes parses the text from its first "{" to its last "}"
\* when both exist in that order, and the whole text otherwise; it returns
\* the "scenes" array as parsed exactly when the parsed value is an object
\* whose "scenes" is an array, and None, raising nothing, when the status is
\* not 200, the text is no JSON, or the value has another shape.
C16_ScenesSliceAndShape ==
  /\ (fn.op = "scenes" /\ ~fn.reply.v.exception /\ fn.reply.v.status # 200)
     => fn.out.v = Ok(None)
  /\ AnsweredText
     => LET text == fn.content
            opens == {i \in 1..Len(text) : text[i] = "{"}
            closes == {i \in 1..Len(text) : text[i] = "}"}
            first == CHOOSE i \in opens : \A k \in opens : i <= k
            last == CHOOSE i \in closes : \A k \in closes : i >= k
            span == IF opens # {} /\ closes # {} /\ last > first
                    THEN SubSeq(text, first, last) ELSE text
            parsed == json_loads(span)
        IN IF ScenesForm(span)
           THEN fn.out.v = Ok(Some(parsed.v.fields[ScenesKey].items))
           ELSE fn.out.v = Ok(None)

C16_Witness ==
  /\ AnsweredText
  /\ fn.wrap = "commentary"
  /\ fn.out.v = Ok(Some(<<JNum(1), JNum(2)>>))

-----------------------------------------------------------------------------
(* RobustMarketingGenerator._generate_once on its own: one call, given the  *)
(* reply of /api/generate.  The response text is put together from a        *)
(* tagline part, a narrative part and a further part, each of them some     *)
(* lines or none.  parsed keeps the two fields as they are before the       *)
(* lengths are enforced.                                                    *)

\* n words of k characters each, a blank between two
LongWords(n, k) == JoinSpace([i \in 1..n |-> [j \in 1..k |-> "x"]])

TaglineParts ==
  {<<>>,
   <<TAGLINE_PREFIX \o <<" ">> \o Words(12)>>,
   <<TAGLINE_PREFIX \o <<" ">> \o Words(3)>>,
   <<TAGLINE_PREFIX \o <<" ">> \o Words(20)>>,
   <<<<" ", " ">> \o TAGLINE_PREFIX \o <<" ", " ">> \o Words(10) \o <<" ">>>>,
   <<TAGLINE_PREFIX \o <<" ">> \o LongWords(9, 14)>>,
   <<TAGLINE_PREFIX, Words(11)>>,
   <<<<"t", "a", "g", "l", "i", "n", "e", ":", " ">> \o Words(4)>>,
   <<TAGLINE_PREFIX \o <<" ">> \o Words(2), TAGLINE_PREFIX \o <<" ">> \o Words(15)>>}

NarrativeParts ==
  {<<>>,
   <<NARRATIVE_PREFIX \o <<" ">> \o Words(120)>>,
   <<NARRATIVE_PREFIX \o <<" ">> \o Words(5)>>,
   <<NARRATIVE_PREFIX \o <<" ">> \o Words(160)>>,
   <<NARRATIVE_PREFIX \o <<" ">>, Words(100)>>,
   <<NARRATIVE_PREFIX \o Words(150) \o <<" ", " ">>>>}

FurtherParts ==
  {<<>>,
   <<<<" ">>>>,
   <<Words(3)>>,
   <<Words(70), <<>>, LongWords(110, 14)>>}

Orders == {"tnx", "ntx", "xtn", "txn"}

Arrange(order, t, n, x) ==
  CASE order = "tnx" -> t \o n \o x
    [] order = "ntx" -> n \o t \o x
    [] order = "xtn" -> x \o t \o n
    [] order = "txn" -> t \o x \o n

OnceContents ==
  {Arrange(order, t, n, x) :
     order \in Orders, t \in TaglineParts, n \in NarrativeParts, x \in FurtherParts}

OnceReplies ==
  {ReplyStatus(200, Some(c)) : c \in OnceContents}
  \cup {ReplyStatus(200, None), ReplyStatus(500, None), ReplyException}

OnceInit ==
  /\ \E reply \in OnceReplies :
       fn = [pc |-> "called", op |-> "none", reply |-> reply,
             parsed |-> None, out |-> None]
  /\ PipeOff
  /\ pp = Off /\ mg = Off /\ ui = Off /\ eq = Off

GenerateOnce ==
  /\ fn.pc = "called"
  /\ LET content == IF fn.reply.kind = "status" /\ fn.reply.response.some
                    THEN fn.reply.response.v ELSE <<>>
     IN fn' = [fn EXCEPT
                 !.pc = "returned", !.op = "once",
                 !.parsed = Some(FallbackParse(content, ScanLines(content, <<>>, <<>>))),
                 !.out = Some(generate_once(<<"p">>, "llama2", fn.reply))]
  /\ UNCHANGED <<pipeVars, pp, mg, ui, eq>>

OnceNext == GenerateOnce

SpecOnce == OnceInit /\ [][OnceNext]_vars

\* the call returned a result with success true
Succeeded == fn.op = "once" /\ fn.out.v.success

\* the stripped lines of the response of a successful call
ResponseLines ==
  LET content == IF fn.reply.response.some THEN fn.reply.response.v ELSE <<>>
  IN [i \in 1..Len(content) |-> Strip(content[i])]

\* the positions of the lines that start with the prefix
PrefixedAt(prefix) ==
  {i \in 1..Len(ResponseLines) : StartsWith(ResponseLines[i], prefix)}

\* the stripped text after the prefix on line i
AfterPrefix(i, prefix) == Strip(Suffix(ResponseLines[i], Len(prefix)))

\* the text after the prefix on the last line that has it, empty without one
LastAfterPrefix(prefix) ==
  LET at == PrefixedAt(prefix)
  IN IF at = {} THEN <<>>
     ELSE AfterPrefix(CHOOSE i \in at : \A k \in at : k <= i, prefix)

NonEmptyLines ==
  LET NonEmpty(ln) == ln # <<>>
  IN SelectSeq(ResponseLines, NonEmpty)

WordCount(text) == Len(Split(text))

\* C17: a field whose prefix is on some line is the stripped text after the
\* prefix on such a line; a tagline whose prefix is on no line is the first
\* non-empty line, a narrative whose prefix is on no line is the other
\* non-empty lines joined and cut to the cap.
C17_FieldFollowsPrefix ==
  Succeeded
  => /\ PrefixedAt(TAGLINE_PREFIX) # {}
          => \E i \in PrefixedAt(TAGLINE_PREFIX) :
               fn.parsed.v.tagline = AfterPrefix(i, TAGLINE_PREFIX)
     /\ PrefixedAt(NARRATIVE_PREFIX) # {}
          => \E i \in PrefixedAt(NARRATIVE_PREFIX) :
               fn.parsed.v.narrative = AfterPrefix(i, NARRATIVE_PREFIX)
     /\ (PrefixedAt(TAGLINE_PREFIX) = {} /\ NonEmptyLines # <<>>)
          => fn.parsed.v.tagline = Prefix(NonEmptyLines[1], TAGLINE_MAX_CHARS)
     /\ (PrefixedAt(NARRATIVE_PREFIX) = {} /\ NonEmptyLines # <<>>)
          => fn.parsed.v.narrative =
               Prefix(JoinSpace(Tail(NonEmptyLines)), NARRATIVE_MAX_CHARS)

\* C17 (as the code has it): a field is the stripped text after its prefix
\* on the last line that has the prefix when that text is not empty; when
\* one of the two texts is empty, for want of the prefix or of text after
\* it, an empty tagline becomes the first non-empty line cut to 120
\* characters and an empty narrative the other non-empty lines joined and
\* cut to 1500 characters.
C17_FieldFollowsPrefixOrFallsBack ==
  Succeeded
  => LET t == LastAfterPrefix(TAGLINE_PREFIX)
         n == LastAfterPrefix(NARRATIVE_PREFIX)
         fallback == (t = <<>> \/ n = <<>>) /\ NonEmptyLines # <<>>
     IN /\ fn.parsed.v.tagline =
             IF t # <<>> THEN t
             ELSE IF fallback THEN Prefix(NonEmptyLines[1], TAGLINE_MAX_CHARS)
             ELSE <<>>
        /\ fn.parsed.v.narrative =
             IF n # <<>> THEN n
             ELSE IF fallback
             THEN Prefix(JoinSpace(Tail(NonEmptyLines)), NARRATIVE_MAX_CHARS)
             ELSE <<>>

C17_Witness ==
  /\ Succeeded
  /\ PrefixedAt(TAGLINE_PREFIX) # {}
  /\ PrefixedAt(NARRATIVE_PREFIX) = {}
  /\ Len(NonEmptyLines) = 3
  /\ fn.parsed.v.tagline = Words(3)
  /\ Len(fn.parsed.v.narrative) = NARRATIVE_MAX_CHARS

\* C18: a successful result has a tagline of at most 15 words and a
\* narrative of at most 150 words, and a field that was within its limit
\* when parsed is returned with the words it had.
C18_LimitsAndNothingShortened ==
  Succeeded
  => /\ WordCount(fn.out.v.tagline) <= TAGLINE_MAX_WORDS
     /\ WordCount(fn.out.v.narrative) <= NARRATIVE_MAX_WORDS
     /\ WordCount(fn.parsed.v.tagline) <= TAGLINE_MAX_WORDS
          => Split(fn.out.v.tagline) = Split(fn.parsed.v.tagline)
     /\ WordCount(fn.parsed.v.narrative) <= NARRATIVE_MAX_WORDS
          => Split(fn.out.v.narrative) = Split(fn.parsed.v.narrative)

\* C18 (as the code has it): the same, but a tagline of fewer than 10 words
\* keeps its words only when, joined by single blanks, they take at most 120
\* characters; a longer one is cut to 120 characters.
C18_LimitsAndShortTaglineCapped ==
  Succeeded
  => /\ WordCount(fn.out.v.tagline) <= TAGLINE_MAX_WORDS
     /\ WordCount(fn.out.v.narrative) <= NARRATIVE_MAX_WORDS
     /\ (/\ WordCount(fn.parsed.v.tagline) <= TAGLINE_MAX_WORDS
         /\ \/ WordCount(fn.parsed.v.tagline) >= TAGLINE_MIN_WORDS
            \/ Len(JoinSpace(Split(fn.parsed.v.tagline))) <= TAGLINE_MAX_CHARS)
          => Split(fn.out.v.tagline) = Split(fn.parsed.v.tagline)
     /\ (/\ WordCount(fn.parsed.v.tagline) < TAGLINE_MIN_WORDS
         /\ Len(JoinSpace(Split(fn.parsed.v.tagline))) > TAGLINE_MAX_CHARS)
          => fn.out.v.tagline =
               Strip(Prefix(JoinSpace(Split(fn.parsed.v.tagline)), TAGLINE_MAX_CHARS))
     /\ WordCount(fn.parsed.v.narrative) <= NARRATIVE_MAX_WORDS
          => Split(fn.out.v.narrative) = Split(fn.parsed.v.narrative)

C18_Witness ==
  /\ Succeeded
  /\ WordCount(fn.parsed.v.tagline) = 20
  /\ WordCount(fn.out.v.tagline) = TAGLINE_MAX_WORDS
  /\ WordCount(fn.parsed.v.narrative) = 160
  /\ WordCount(fn.out.v.narrative) = NARRATIVE_MAX_WORDS

\* C19: a successful result has a tagline of at least 10 words and a
\* narrative of at least 100 words, also when the parsed fields had fewer.
C19_PaddedToMinimum ==
  Succeeded
  => /\ WordCount(fn.out.v.tagline) >= TAGLINE_MIN_WORDS
     /\ WordCount(fn.out.v.narrative) >= NARRATIVE_MIN_WORDS

-----------------------------------------------------------------------------
(* app/llm_client.py: LLMClient.chat_completion.  Floats are counted in     *)
(* hundredths.  The call is made by the services with a system and a user   *)
(* message, so the list of messages is never empty; the POST is answered by *)
(* a response, a timeout, an error status, or fails otherwise.              *)

\* app/config.py, lines 14-21
Settings(api_key) ==
  [LLM_API_KEY |-> api_key, LLM_TEMPERATURE |-> 70, LLM_MAX_TOKENS |-> 1000,
   LLM_TOP_P |-> 100, LLM_PRESENCE_PENALTY |-> 0, LLM_FREQUENCY_PENALTY |-> 0]

\* app/schemas.py, LLMRequest: ge and le of each field
LLMRequestRanges ==
  [temperature |-> <<0, 200>>, max_tokens |-> <<1, 4000>>, top_p |-> <<0, 100>>,
   presence_penalty |-> <<-200, 200>>, frequency_penalty |-> <<-200, 200>>]

\* a request that is taken whatever its numbers
LLMRequestAny(request_data) == TRUE

\* LLMRequest(**request_data) raises nothing
LLMRequest(request_data) ==
  \A k \in DOMAIN LLMRequestRanges :
    /\ request_data[k] >= LLMRequestRanges[k][1]
    /\ request_data[k] <= LLMRequestRanges[k][2]

\* value if value is not None else default
OrDefault(value, default) == IF value.some THEN value.v ELSE default

\* lines 78-86
RequestData(settings, params) ==
  [temperature |-> OrDefault(params.temperature, settings.LLM_TEMPERATURE),
   max_tokens |-> OrDefault(params.max_tokens, settings.LLM_MAX_TOKENS),
   top_p |-> OrDefault(params.top_p, settings.LLM_TOP_P),
   presence_penalty |-> OrDefault(params.presence_penalty, settings.LLM_PRESENCE_PENALTY),
   frequency_penalty |-> OrDefault(params.frequency_penalty, settings.LLM_FREQUENCY_PENALTY)]

\* words of the fixed text of the two templates (prompt_templates.py lines
\* 17 and 53), a text being a sequence of words and blanks
FEATURE_EXTRACTION_TEMPLATE ==
  <<"Extract", " ", "key", " ", "marketing", " ", "features">>
STORYLINE_GENERATION_TEMPLATE ==
  <<"Key", " ", "Features", " ", "to", " ", "Highlight">>

\* Template.substitute: the text of a prompt, its template around the
\* product description
RenderedText(prompt) ==
  (IF prompt.template = "FEATURE_EXTRACTION" THEN FEATURE_EXTRACTION_TEMPLATE
   ELSE STORYLINE_GENERATION_TEMPLATE) \o <<" ">> \o prompt.product_prompt

\* word in text
Contains(text, word) == word \in SeqToSet(text)

\* the canned feature array, lines 141-166
MockFeatures ==
  JList(<<JObj([id |-> "f1", name |-> <<"Portable", " ", "Design">>, type |-> "benefit",
                importance_rank |-> 1, confidence |-> 95,
                example_phrase |-> <<"Fits">>]),
          JObj([id |-> "f2", name |-> <<"4K", " ", "Streaming">>, type |-> "spec",
                importance_rank |-> 2, confidence |-> 90,
                example_phrase |-> <<"Crystal-clear">>]),
          JObj([id |-> "f3", name |-> <<"Long", " ", "Battery", " ", "Life">>,
                type |-> "benefit", importance_rank |-> 3, confidence |-> 88,
                example_phrase |-> <<"4-hour">>])>>)

\* the canned storyline object, lines 168-194: a headline of 62 characters,
\* five bullets, four use cases, two calls to action, two posts
MockStoryline ==
  JObj([headline |-> JStr(Rep("h", 62)),
        subhead |-> Text("Transform any space"),
        hero_paragraph |-> JStr(<<"Gone", " ", "are", " ", "the", " ", "days">>),
        bulleted_features |-> JList([i \in 1..5 |-> Text("Bullet")]),
        persona |-> Text("Tech-savvy professionals"),
        use_cases |-> JList([i \in 1..4 |-> Text("Use")]),
        ctas |-> JList(<<Text("Get"), Text("Start")>>),
        email_subject |-> Text("Break free"),
        email_body |-> Text("Imagine"),
        social_posts |-> JList(<<Text("Post 1"), Text("Post 2")>>)])

\* _mock_response: the lowercased last message selects the canned answer,
\* returned in the format of a chat completion
mock_response(messages) ==
  LET last_message == Lower(messages[Len(messages)].content)
  IN RespJson(IF Contains(last_message, "extract") \/ Contains(last_message, "features")
              THEN MockFeatures ELSE MockStoryline)

PostOk(response) == [kind |-> "ok", response |-> response]
PostTimeout == [kind |-> "timeout"]
PostStatus(code) == [kind |-> "status", status_code |-> code]
PostFails == [kind |-> "error"]

\* what a call did: its result, and whether it posted and whether it mocked
Did(out, posted, mocked) == [out |-> out, posted |-> posted, mocked |-> mocked]

\* chat_completion, given what the POST does when it is made
chat_completion(settings, messages, params, post) ==
  IF ~LLMRequest(RequestData(settings, params))
  THEN Did(Raise(Wrapped("Invalid LLM request parameters",
                         OtherError("ValidationError", "LLMRequest"))), FALSE, FALSE)
  ELSE IF settings.LLM_API_KEY \in {"", "your-api-key-here"}
  THEN Did(Ok(mock_response(messages)), FALSE, TRUE)
  ELSE CASE post.kind = "ok" -> Did(Ok(post.response), TRUE, FALSE)
         [] post.kind = "timeout" ->
              Did(Raise(LLMError("LLM API request timed out")), TRUE, FALSE)
         [] post.kind = "status" ->
              Did(Raise(IF post.status_code = 401
                        THEN LLMError("Invalid API key or authentication failed")
                        ELSE IF post.status_code = 429
                        THEN LLMError("Rate limit exceeded")
                        ELSE LLMError("LLM API error: " \o ToString(post.status_code))),
                  TRUE, FALSE)
         [] post.kind = "error" ->
              Did(Raise(Wrapped("Unexpected error calling LLM API",
                                OtherError("ConnectError", "connection failed"))),
                  TRUE, FALSE)

ApiKeys == {"", "your-api-key-here", "sk-test"}

\* a system message followed by a user message: the two prompts of the
\* services, the message of the client's test, and a greeting
MessageLists ==
  {<<[role |-> "system", content |-> <<"expert marketing analyst">>],
     [role |-> "user", content |-> c]>> :
     c \in {RenderedText(get_feature_extraction_prompt(<<"projector">>, 10)),
            RenderedText(get_storyline_generation_prompt(
                           <<"projector">>, <<>>, "friendly", "medium", None)),
            <<"extract", " ", "features">>,
            <<"Hello">>}}

Optionals(values) == {None} \cup {Some(v) : v \in values}

ParamSets ==
  [temperature : Optionals({-1, 0, 200, 201}),
   max_tokens : Optionals({0, 1, 4000, 4001}),
   top_p : Optionals({100, 101}),
   presence_penalty : Optionals({-201, 200}),
   frequency_penalty : Optionals({201})]

\* the backend answers, with any completion, the canned ones included
Posts ==
  {PostOk(RespNotJson), PostOk(RespJson(MockFeatures)), PostOk(RespJson(MockStoryline)),
   PostTimeout, PostFails}
  \cup {PostStatus(code) : code \in {400, 401, 429, 500, 503}}

ChatInit ==
  /\ \E api_key \in ApiKeys, messages \in MessageLists, params \in ParamSets :
       fn = [pc |-> "called", op |-> "none", settings |-> Settings(api_key),
             messages |-> messages, params |-> params, post |-> None, did |-> None]
  /\ PipeOff
  /\ pp = Off /\ mg = Off /\ ui = Off /\ eq = Off

ChatCompletion ==
  /\ fn.pc = "called"
  /\ \E post \in Posts :
       LET did == chat_completion(fn.settings, fn.messages, fn.params, post)
       IN fn' = [fn EXCEPT !.pc = "returned", !.op = "chat",
                           !.post = IF did.posted THEN Some(post) ELSE None,
                           !.did = Some(did)]
  /\ UNCHANGED <<pipeVars, pp, mg, ui, eq>>

ChatNext == ChatCompletion

SpecChat == ChatInit /\ [][ChatNext]_vars

\* the number the request carries for a parameter
Sent(name, default) ==
  IF fn.params[name].some THEN fn.params[name].v ELSE fn.settings[default]

\* some parameter of the request is outside the range LLMRequest allows
OutOfRange ==
  \/ Sent("temperature", "LLM_TEMPERATURE") \notin 0..200
  \/ Sent("max_tokens", "LLM_MAX_TOKENS") \notin 1..4000
  \/ Sent("top_p", "LLM_TOP_P") \notin 0..100
  \/ Sent("presence_penalty", "LLM_PRESENCE_PENALTY") \notin (-200)..200
  \/ Sent("frequency_penalty", "LLM_FREQUENCY_PENALTY") \notin (-200)..200

\* C20: a call of chat_completion that fails raises LLMError and nothing
\* else: "LLM API request timed out" after a timeout, the authentication
\* error after status 401, "Rate limit exceeded" after status 429, an error
\* with the status code after another error status, and the invalid
\* parameters error, with no POST and no mock response made, when a
\* parameter is out of range.
C20_FailuresAreLLMErrors ==
  fn.op = "chat"
  => LET out == fn.did.v.out
     IN /\ ~out.ok => out.err.type = "LLMError"
        /\ fn.post = Some(PostTimeout)
             => ~out.ok /\ out.err.msg = "LLM API request timed out"
        /\ fn.post = Some(PostStatus(401))
             => ~out.ok /\ out.err.msg = "Invalid API key or authentication failed"
        /\ fn.post = Some(PostStatus(429))
             => ~out.ok /\ out.err.msg = "Rate limit exceeded"
        /\ \A code \in {400, 500, 503} :
             fn.post = Some(PostStatus(code))
             => ~out.ok /\ out.err.msg = "LLM API error: " \o ToString(code)
        /\ OutOfRange
             => /\ ~out.ok
                /\ out.err.msg = "Invalid LLM request parameters"
                /\ ~fn.did.v.posted
                /\ ~fn.did.v.mocked
        /\ (~OutOfRange /\ fn.post = None) => out.ok /\ fn.did.v.mocked

C20_Witness ==
  /\ fn.op = "chat"
  /\ fn.post = Some(PostStatus(503))
  /\ fn.params.max_tokens = Some(4000)
  /\ fn.did.v.out = Raise(LLMError("LLM API error: 503"))


---------------------------------------------------------------------------
\* Further properties of the two services, checked under SpecPipe.

ReturnedFeatures == run.pc = "done" /\ run.op = "extract"

\* C23: in every list returned by extract_features the feature ids are
\* pairwise distinct, whatever ids the model supplied or left out.
C23_FeatureIdsDistinct ==
  ReturnedFeatures =>
    \A i, j \in 1..Len(run.value.v) :
      run.value.v[i].id = run.value.v[j].id => i = j

\* a returned list in which a supplied id and a defaulted id coincide
C23_Witness ==
  /\ ReturnedFeatures
  /\ Len(run.value.v) = 2
  /\ run.value.v[1].id = run.value.v[2].id

\* C24: every list returned by extract_features has at most max_features
\* items whose importance ranks are 1..N in list order, and an item that
\* fails conversion is skipped without failing the run.
C24_CappedAndRankedInOrder ==
  /\ ReturnedFeatures =>
       /\ Len(run.value.v) <= run.args.max_features
       /\ \A i \in 1..Len(run.value.v) : run.value.v[i].importance_rank = i
  /\ (run.op = "extract" /\ run.parsed.some /\ run.parsed.v.t = "list")
       => (run.raised.some => run.raised.v.at # "normalise")

\* a returned list shorter than the answer because items were skipped
C24_Witness ==
  /\ ReturnedFeatures
  /\ Executed("normalise")
  /\ run.parsed.v.t = "list"
  /\ ItemBadType \in SeqToSet(Prefix(run.parsed.v.items, run.args.max_features))
  /\ Len(run.value.v) = 2

---------------------------------------------------------------------------
\* Further property of the page, checked under SpecUI.

\* C28: whenever the session holds scenes it holds a storyline, and the
\* scenes were generated from that storyline.
C28_ScenesBelongToStoryline ==
  ui.scenes.some =>
    /\ ui.storyline.some
    /\ ui.scenes_from = ui.storyline

\* a run aborted after storing its storyline, over scenes of an earlier run
C28_Witness ==
  /\ ui.last.kind = "aborted"
  /\ ui.scenes.some
  /\ ui.last.before.scenes = ui.scenes
  /\ ui.storyline # ui.last.before.storyline

---------------------------------------------------------------------------
\* Further properties of RobustMarketingGenerator.generate_storyline.

\* Every step of a call is a synchronous statement of generate_storyline,
\* and every HTTP request it makes carries a timeout (5, 15, 900 and 120
\* seconds), so a step that is enabled is taken.  Calls themselves come from
\* the page and are not forced.
SpecMGFair ==
  /\ SpecMG
  /\ WF_vars(MGHealthCheck)
  /\ WF_vars(MGResolve)
  /\ WF_vars(MGAttempt)

\* position of the first occurrence of x in seq
FirstIndex(seq, x) ==
  CHOOSE i \in 1..Len(seq) : seq[i] = x /\ \A k \in 1..(i - 1) : seq[k] # x

IsPreferred(m) == m \in SeqToSet(preferred_models)

\* the preferred local models first, in preference order, then the other
\* local models in the order they were listed, none repeated
TryOrderAsDescribed(try_order, local_models) ==
  /\ SeqToSet(try_order) = SeqToSet(local_models)
  /\ \A i, j \in 1..Len(try_order) : try_order[i] = try_order[j] => i = j
  /\ \A i, j \in 1..Len(try_order) :
       i < j =>
         /\ IsPreferred(try_order[j]) => IsPreferred(try_order[i])
         /\ (IsPreferred(try_order[i]) /\ IsPreferred(try_order[j]))
              => FirstIndex(preferred_models, try_order[i])
                   < FirstIndex(preferred_models, try_order[j])
         /\ (~IsPreferred(try_order[i]) /\ ~IsPreferred(try_order[j]))
              => FirstIndex(local_models, try_order[i])
                   < FirstIndex(local_models, try_order[j])

CallBounded ==
  /\ mg.pc = "returned" => mg.result.some
  /\ (mg.result.some /\ mg.result.v \in {ServiceDown, NoModels}) => mg.attempts = <<>>
  /\ TryOrderAsDescribed(mg.try_order, mg.local_models)
  /\ Len(mg.attempts) <= Len(mg.try_order)
  /\ \A j \in 1..Len(mg.attempts) : mg.attempts[j].model = mg.try_order[j]

---------------------------------------------------------------------------
\* The cache key and the prompt of two generate_storyline requests
\* (story_generator.py lines 95-118), each computed from the request alone.

KeyOf(a) == StoryCacheKey(a.product_prompt, a.features, a.tone, a.length, a.audience)

PromptOf(a) ==
  get_storyline_generation_prompt(a.product_prompt, a.features, a.tone, a.length,
                                  a.audience)

KeyInit ==
  /\ \E first \in StoryCalls, second \in StoryCalls :
       fn = [pc |-> "called", op |-> "none", first |-> first, second |-> second,
             keys |-> <<>>, prompts |-> <<>>]
  /\ PipeOff
  /\ pp = Off /\ mg = Off /\ ui = Off /\ eq = Off

\* lines 95-97: the key each request looks up and stores under
GenerateCacheKeys ==
  /\ fn.pc = "called"
  /\ fn' = [fn EXCEPT !.pc = "keyed", !.op = "key",
                      !.keys = <<KeyOf(fn.first), KeyOf(fn.second)>>]
  /\ UNCHANGED <<pipeVars, pp, mg, ui, eq>>

\* lines 100-118: the prompt each request sends on a miss
RenderPrompts ==
  /\ fn.pc = "keyed"
  /\ fn' = [fn EXCEPT !.pc = "rendered", !.op = "prompt",
                      !.prompts = <<PromptOf(fn.first), PromptOf(fn.second)>>]
  /\ UNCHANGED <<pipeVars, pp, mg, ui, eq>>

KeyNext ==
  \/ GenerateCacheKeys
  \/ RenderPrompts

SpecKey == KeyInit /\ [][KeyNext]_vars

\* C27: two generate_storyline requests that map to the same cache key
\* render the same prompt.
C27_SameKeySamePrompt ==
  (fn.pc = "rendered" /\ fn.keys[1] = fn.keys[2]) => fn.prompts[1] = fn.prompts[2]

\* two requests that differ only in a feature's example phrase, or only in
\* the audience being absent or the text "default", share a key and not a prompt
C27_Witness ==
  /\ fn.pc = "rendered"
  /\ fn.first # fn.second
  /\ fn.keys[1] = fn.keys[2]
  /\ fn.prompts[1] # fn.prompts[2]

---------------------------------------------------------------------------
\* Further property of chat_completion, checked under SpecChat.

\* what a call that posted may return
LiveResponses == {post.response : post \in {p \in Posts : p.kind = "ok"}}

\* C21: without an API key chat_completion returns a canned response without
\* a network call, and that result differs from every result of a live call.
C21_MockIsMarked ==
  (fn.op = "chat" /\ fn.did.v.mocked) =>
    /\ ~fn.did.v.posted
    /\ fn.did.v.out.ok
    /\ fn.did.v.out.v \notin LiveResponses

\* a call without a key returned the canned feature array, posting nothing
C21_Witness ==
  /\ fn.op = "chat"
  /\ fn.settings.LLM_API_KEY = ""
  /\ fn.did.v.mocked
  /\ ~fn.did.v.posted
  /\ fn.did.v.out = Ok(RespJson(MockFeatures))

---------------------------------------------------------------------------
\* The two services over a client that has no API key: every completion is
\* the answer of _mock_response to the messages the service built.

\* the keyword arguments of the two chat_completion calls
\* (feature_extractor.py lines 99-103, story_generator.py lines 130-134)
CallParams(op) ==
  [temperature |-> Some(IF op = "extract" THEN 30 ELSE 80),
   max_tokens |-> Some(IF op = "extract" THEN 2000 ELSE 3000),
   top_p |-> None, presence_penalty |-> None, frequency_penalty |-> None]

\* the messages list of a run, the user prompt rendered as text
ChatMessages(messages) ==
  <<[role |-> "system", content |-> messages.system],
    [role |-> "user", content |-> RenderedText(messages.user)]>>

MockCompletion ==
  /\ run.pc = "call"
  /\ LET did == chat_completion(Settings("your-api-key-here"),
                                ChatMessages(run.messages.v), CallParams(run.op),
                                PostTimeout)
     IN /\ did.mocked
        /\ Becomes(StepCall(St, did.out, now))

MockNext ==
  \/ Tick
  \/ CallExtract
  \/ CallStory
  \/ Validate
  \/ CacheCheck
  \/ BuildPrompt
  \/ MockCompletion
  \/ Parse
  \/ Normalise
  \/ CacheWrite
  \/ Return

SpecMock == PipeInit /\ [][MockNext]_vars

\* C29: in mock mode the feature-extraction prompt is answered with the
\* canned feature array and the storyline-generation prompt with the canned
\* storyline object, so both services complete successfully.
C29_MockModeCompletes ==
  /\ run.response.some =>
       run.response.v = RespJson(IF run.op = "extract" THEN MockFeatures
                                 ELSE MockStoryline)
  /\ (Ended(run) /\ Executed("call")) => run.pc = "done"

\* generate_storyline got the feature array for its prompt and failed on it
C29_Witness ==
  /\ run.op = "story"
  /\ run.pc = "failed"
  /\ run.response = Some(RespJson(MockFeatures))
  /\ run.raised.some
  /\ run.raised.v.at = "normalise"
  /\ run.err.v.type = "LLMError"

---------------------------------------------------------------------------
\* app/main.py: POST /storyline.  Each request gets services of its own
\* (lines 63-73), so a request starts from caches as constructed.

EXTRACT_CAP == 10

\* a service call run to its end, every completion it makes answered by out
RECURSIVE RunWith(_, _, _)
RunWith(st, out, t) ==
  IF Ended(st.run) THEN st ELSE RunWith(Step(st, out, t), out, t)

\* the status of the response: lines 161-169
StatusOf(r) ==
  IF r.pc = "done" THEN 200 ELSE IF r.err.v.type = "ValueError" THEN 400 ELSE 500

\* a call of a service constructed for the request
ServiceCall(op, args, cache_enabled, out) ==
  RunWith([run |-> NewRun(op, args, NewCache(cache_enabled), 0),
           cache |-> NewCache(cache_enabled)], out, 0).run

ApiRequests ==
  [product_prompt : {PromptA, PromptBlank},
   features : {None, Some(<<>>), Some(<<FPortable>>)},
   tone : {"friendly", "luxury"},
   length : {"short", "medium"},
   audience : {None, Some(<<"G">>)}]

\* what chat_completion may do, whichever service calls it
ApiOutcomes == BackendOutcomes("extract") \cup BackendOutcomes("story")

ApiInit ==
  /\ \E request \in ApiRequests, enabled \in BOOLEAN :
       fn = [pc |-> "posted", op |-> "storyline", request |-> request,
             cache_enabled |-> enabled, outs |-> <<>>, features |-> <<>>,
             extract |-> IdleRun, story |-> IdleRun, status |-> 0]
  /\ PipeOff
  /\ pp = Off /\ mg = Off /\ ui = Off /\ eq = Off

\* not features
FeaturesOmitted ==
  IF fn.request.features.some THEN fn.request.features.v = <<>> ELSE TRUE

\* lines 143-151: features given, they are taken as they are
ApiFeaturesGiven ==
  /\ fn.pc = "posted"
  /\ ~FeaturesOmitted
  /\ fn' = [fn EXCEPT !.pc = "generate", !.features = fn.request.features.v]
  /\ UNCHANGED <<pipeVars, pp, mg, ui, eq>>

\* lines 143-151, and 164-169 when extract_features raises
ApiExtract ==
  /\ fn.pc = "posted"
  /\ FeaturesOmitted
  /\ \E out \in ApiOutcomes :
       LET r == ServiceCall("extract", ExtractArgs(fn.request.product_prompt, EXTRACT_CAP),
                            fn.cache_enabled, out)
       IN fn' = IF r.pc = "done"
                THEN [fn EXCEPT !.pc = "generate", !.outs = <<out>>, !.extract = r,
                                !.features = r.value.v]
                ELSE [fn EXCEPT !.pc = "responded", !.outs = <<out>>, !.extract = r,
                                !.status = StatusOf(r)]
  /\ UNCHANGED <<pipeVars, pp, mg, ui, eq>>

\* lines 153-169
ApiGenerate ==
  /\ fn.pc = "generate"
  /\ \E out \in ApiOutcomes :
       LET r == ServiceCall("story",
                            StoryArgs(fn.request.product_prompt, fn.features,
                                      fn.request.tone, fn.request.length,
                                      fn.request.audience),
                            fn.cache_enabled, out)
       IN fn' = [fn EXCEPT !.pc = "responded", !.outs = Append(fn.outs, out),
                           !.story = r, !.status = StatusOf(r)]
  /\ UNCHANGED <<pipeVars, pp, mg, ui, eq>>

ApiNext ==
  \/ ApiFeaturesGiven
  \/ ApiExtract
  \/ ApiGenerate

SpecApi == ApiInit /\ [][ApiNext]_vars

\* every completion call the request made returned a completion
CompletionsSucceeded == \A i \in 1..Len(fn.outs) : fn.outs[i].ok

\* C22: a request without features runs feature extraction with cap 10 and
\* then storyline generation with the extracted features, and is answered
\* 200 with at least three bulleted features whenever the completion calls
\* succeed; a request with features does not invoke extraction.
C22_ExtractsThenGenerates ==
  fn.pc = "responded" =>
    /\ FeaturesOmitted =>
         /\ fn.extract.op = "extract"
         /\ fn.extract.args.max_features = 10
         /\ fn.story.op = "story"
              => /\ fn.extract.pc = "done"
                 /\ fn.story.args.features = fn.extract.value.v
         /\ (CompletionsSucceeded /\ Strip(fn.request.product_prompt) # <<>>)
              => /\ fn.status = 200
                 /\ Len(fn.story.value.v.bulleted_features.items) >= 3
    /\ ~FeaturesOmitted => fn.extract.pc = "idle"

\* every completion call is answered with the same well-formed storyline
\* object, as in test_generate_storyline_success, and the answer is 500
C22_Witness ==
  /\ fn.pc = "responded"
  /\ fn.request.features = None
  /\ fn.outs = <<Ok(RespJson(GoodStory(HEADLINE_MAX_CHARS + 1, 4)))>>
  /\ fn.status = 500
  /\ fn.extract.raised.v.at = "normalise"
  /\ fn.story.pc = "idle"
====
